---- MODULE Spec2Model ----
(***************************************************************************)
(* Verification model of the GGUF visualizer.                              *)
(*                                                                         *)
(*   SpecReader : BufferReader (gguf-parser.js) over small byte buffers.   *)
(*   SpecParse  : parseGGUFHeader / _parseHeader over file layouts.        *)
(*   Spec       : the application event loop (main.js): file loads,        *)
(*                worker dispatch, point-cloud regeneration, connections.  *)
(*   SpecClassify : classifyTensor over tensor names.                      *)
(*   SpecArch   : extractArchInfo over metadata maps.                      *)
(*   SpecLayout : computeLayout / getRegion over architectures.            *)
(*   SpecSample : sampleTensorWeights over tensor descriptors.             *)
(*   SpecCloud  : generatePointCloud (point-cloud.js), two runs of it.     *)
(*   SpecConn   : generateConnections over region tables.                  *)
(*   SpecLive   : Spec with the fairness of a settling generation.         *)
(*                                                                         *)
(* One set of variables serves all specifications; a specification holds   *)
(* the variables of the others at their idle values.                       *)
(***************************************************************************)
EXTENDS Integers, Sequences, FiniteSets, TLC

VARIABLES
  \* ---- BufferReader (SpecReader) ----
  buf,                \* this.buf: the bytes of the ArrayBuffer
  offset,             \* this.offset
  accessed,           \* ghost: indices of buf touched through the DataView
  lastRead,           \* ghost: the last typed read, its raw bytes and result
  \* ---- parseGGUFHeader (SpecParse) ----
  hp,                 \* the activation of parseGGUFHeader
  \* ---- application (Spec) ----
  currentFile,
  parsedData,
  isGenerating,
  lastPointCloudData,
  pointSlider,        \* pointSlider.value
  colorMode,          \* colorMode.value
  connectionsToggle,  \* connectionsToggle.checked
  regenerateTimeout,  \* TRUE while the 100 ms regenerate timer is pending
  connDensityTimeout, \* TRUE while the 100 ms density timer is pending
  pointCloud,         \* renderer.pointCloud (the installed cloud)
  connectionLines,    \* renderer.connectionLines
  loads,              \* the activations of handleFile, in call order
  gens,               \* the generatePointCloud calls that have not settled
  genSeq,             \* ghost: number of generatePointCloud calls so far
  genFailed,          \* ghost: the last settled generation threw
  events,             \* ghost: number of user events so far
  \* ---- calls of the exported functions ----
  classifyCall,       \* a call of classifyTensor (SpecClassify)
  archCall,           \* a call of extractArchInfo (SpecArch)
  layoutCall,         \* a call of computeLayout and its getRegion (SpecLayout)
  sampleCall,         \* a call of sampleTensorWeights (SpecSample)
  cloudCall,          \* calls of generatePointCloud (SpecCloud)
  connCall            \* a call of generateConnections (SpecConn)

readerVars == <<buf, offset, accessed, lastRead>>
parseVars == <<hp>>
uiVars == <<pointSlider, colorMode, connectionsToggle, regenerateTimeout, connDensityTimeout>>
genVars == <<isGenerating, gens, genSeq>>
rendVars == <<pointCloud, connectionLines, lastPointCloudData, genFailed>>
appVars == <<currentFile, parsedData, loads, uiVars, genVars, rendVars, events>>
fnVars == <<classifyCall, archCall, layoutCall, sampleCall, cloudCall, connCall>>
vars == <<readerVars, parseVars, appVars, fnVars>>

\* ------------------------------------------------------------------------
\* Bounds
\* ------------------------------------------------------------------------
MaxBufLen == 10
MaxKV == 2
MaxTensors == 2
MaxEvents == 2

\* ------------------------------------------------------------------------
\* Arithmetic helpers
\* ------------------------------------------------------------------------
Min(a, b) == IF a < b THEN a ELSE b

Max(a, b) == IF a > b THEN a ELSE b

\* Math.ceil(a / b) for a >= 0, b > 0
CeilDiv(a, b) == (a + b - 1) \div b

RECURSIVE Pow2(_)
Pow2(n) == IF n = 0 THEN 1 ELSE 2 * Pow2(n - 1)

\* number of significant bits of a byte
BitLen(b) ==
  IF b = 0 THEN 0 ELSE CHOOSE n \in 1..8 : Pow2(n - 1) <= b /\ b < Pow2(n)

\* ------------------------------------------------------------------------
\* BufferReader over a byte buffer
\* ------------------------------------------------------------------------
ByteVals == {0, 1}

\* the bytes of b at 0-based indices at .. at+n-1 (indices past the end read as 0)
Bytes(b, at, n) == [i \in 1..n |-> IF at + i <= Len(b) THEN b[at + i] ELSE 0]

\* A JavaScript Number holding a non-negative integer below 2^72, written as
\* nine base-256 digits, least significant first.
ExactNum(raw) == [i \in 1..9 |-> IF i <= Len(raw) THEN raw[i] ELSE 0]

\* index of the most significant non-zero digit (0 when the value is 0)
TopDigit(d) ==
  IF \A i \in 1..Len(d) : d[i] = 0 THEN 0
  ELSE CHOOSE k \in 1..Len(d) : d[k] # 0 /\ \A j \in (k+1)..Len(d) : d[j] = 0

NumBitLen(d) == IF TopDigit(d) = 0 THEN 0 ELSE 8 * (TopDigit(d) - 1) + BitLen(d[TopDigit(d)])

\* d + c * 256^(at-1), by carry propagation
RECURSIVE AddAt(_, _, _)
AddAt(d, at, c) ==
  IF c = 0 \/ at > Len(d) THEN d
  ELSE AddAt([d EXCEPT ![at] = (d[at] + c) % 256], at + 1, (d[at] + c) \div 256)

\* Number(BigInt): the nearest IEEE-754 double (53 significant bits, ties to
\* even) of the 64-bit integer whose little-endian bytes are raw.
ToNumber(raw) ==
  LET d == ExactNum(raw)
      n == NumBitLen(d)
  IN  IF n <= 53 THEN d
      ELSE LET shift == n - 53                  \* 1..11 bits are dropped
               low16 == d[1] + 256 * d[2]
               r == low16 % Pow2(shift)
               q == low16 \div Pow2(shift)
               half == Pow2(shift - 1)
               up == r > half \/ (r = half /\ q % 2 = 1)
               kept == (q + (IF up THEN 1 ELSE 0)) * Pow2(shift)
               base == [d EXCEPT ![1] = 0, ![2] = 0]
           IN  AddAt(AddAt(base, 1, kept % 256), 2, kept \div 256)

\* the Number is a small integer that fits a model integer
IsSmall(num) == \A i \in 4..9 : num[i] = 0

SmallVal(num) == num[1] + 256 * num[2] + 65536 * num[3]

\* _need with the bound off by one
_need_offByOne(off, n, byteLength) == off + n > byteLength + 1

\* _need(n): TRUE when the read of n bytes at off must throw BUFFER_TOO_SMALL
_need(off, n, byteLength) == off + n > byteLength

\* _need(len) for a Number that may be far above any buffer length
_needNum(off, num, byteLength) ==
  ~IsSmall(num) \/ _need(off, SmallVal(num), byteLength)

\* the widths of the fixed-width typed reads
FixedOps ==
  [readUint8 |-> 1, readInt8 |-> 1, readUint16 |-> 2, readInt16 |-> 2,
   readUint32 |-> 4, readInt32 |-> 4, readUint64 |-> 8, readInt64 |-> 8,
   readFloat32 |-> 4, readFloat64 |-> 8, readBool |-> 1]

NoRead == [op |-> "none", ok |-> TRUE, raw |-> <<>>, num |-> ExactNum(<<>>)]

\* readUint64's return value from its eight bytes
readUint64Value(raw) ==
  LET hiZero == \A i \in 5..8 : raw[i] = 0
  IN  IF hiZero THEN ExactNum(raw) ELSE ToNumber(raw)

\* a fixed-width read: _need, then the DataView access, then the advance
ReadFixed(op) ==
  LET w == FixedOps[op] IN
  /\ IF _need(offset, w, Len(buf))
       THEN /\ lastRead' = [op |-> op, ok |-> FALSE, raw |-> <<>>, num |-> ExactNum(<<>>)]
            /\ UNCHANGED <<offset, accessed>>
       ELSE /\ accessed' = accessed \cup (offset..(offset + w - 1))
            /\ offset' = offset + w
            /\ lastRead' = [op |-> op, ok |-> TRUE, raw |-> Bytes(buf, offset, w),
                            num |-> IF op = "readUint64"
                                      THEN readUint64Value(Bytes(buf, offset, w))
                                      ELSE ExactNum(<<>>)]
  /\ UNCHANGED buf

\* readString: readUint64 for the length, _need(len), the Uint8Array view
readString ==
  /\ IF _need(offset, 8, Len(buf))
       THEN /\ lastRead' = [op |-> "readString", ok |-> FALSE, raw |-> <<>>, num |-> ExactNum(<<>>)]
            /\ UNCHANGED <<offset, accessed>>
       ELSE LET len == readUint64Value(Bytes(buf, offset, 8))
                o8 == offset + 8
            IN  IF _needNum(o8, len, Len(buf))
                  THEN /\ offset' = o8
                       /\ accessed' = accessed \cup (offset..(o8 - 1))
                       /\ lastRead' = [op |-> "readString", ok |-> FALSE,
                                       raw |-> Bytes(buf, offset, 8), num |-> len]
                  ELSE /\ offset' = o8 + SmallVal(len)
                       /\ accessed' = accessed \cup (offset..(o8 + SmallVal(len) - 1))
                       /\ lastRead' = [op |-> "readString", ok |-> TRUE,
                                       raw |-> Bytes(buf, offset, 8), num |-> len]
  /\ UNCHANGED buf

ReadTyped == \E op \in DOMAIN FixedOps : ReadFixed(op)

\* eight-byte buffers around 2^53, where a double stops holding every integer
U64Specials ==
  { <<255, 255, 255, 255, 255, 255, 31, 0>>,       \* 2^53 - 1
    <<0, 0, 0, 0, 0, 0, 32, 0>>,                   \* 2^53
    <<1, 0, 0, 0, 0, 0, 32, 0>>,                   \* 2^53 + 1
    <<3, 0, 0, 0, 0, 0, 32, 0>>,                   \* 2^53 + 3
    <<255, 255, 255, 255, 255, 255, 255, 255>> }   \* 2^64 - 1

Buffers == UNION {[1..n -> ByteVals] : n \in 0..MaxBufLen} \cup U64Specials

ReaderIdle ==
  /\ buf = <<>>
  /\ offset = 0
  /\ accessed = {}
  /\ lastRead = NoRead

\* ------------------------------------------------------------------------
\* GGUF header layout and _parseHeader
\* ------------------------------------------------------------------------
GGUFValueType ==
  [UINT8 |-> 0, INT8 |-> 1, UINT16 |-> 2, INT16 |-> 3, UINT32 |-> 4, INT32 |-> 5,
   FLOAT32 |-> 6, BOOL |-> 7, STRING |-> 8, ARRAY |-> 9, UINT64 |-> 10,
   INT64 |-> 11, FLOAT64 |-> 12]

\* the GGMLType tags the layouts use
GGMLType ==
  [F32 |-> 0, F16 |-> 1, Q4_0 |-> 2, Q8_0 |-> 8, Q2_K |-> 10, Q4_K_S |-> 14,
   I8 |-> 28, BF16 |-> 34]

GGUF_MAGIC == 1179993927   \* 0x46554747

ALIGNMENT == 32

INITIAL_READ_SIZE == 10 * 1024 * 1024

\* A file is described by the fields its header parser meets, in order: the
\* values of the fixed-width fields and the declared lengths of the strings.
\* size is file.size; a size below the end of the layout is a truncated file.
\* Counts are the lengths of kv and tensors.

\* width of a scalar metadata value, 0 for the tags readValue treats otherwise
ScalarWidth(type) ==
  CASE type \in {GGUFValueType.UINT8, GGUFValueType.INT8, GGUFValueType.BOOL} -> 1
    [] type \in {GGUFValueType.UINT16, GGUFValueType.INT16} -> 2
    [] type \in {GGUFValueType.UINT32, GGUFValueType.INT32, GGUFValueType.FLOAT32} -> 4
    [] type \in {GGUFValueType.UINT64, GGUFValueType.INT64, GGUFValueType.FLOAT64} -> 8
    [] OTHER -> 0

\* a reader over the slice: cursor position and the pending exception, with
\* the locals of the parse it serves (the metadata entries assigned and the
\* tensor entries pushed so far)
Cursor(off) == [offset |-> off, err |-> "none", metadata |-> <<>>, tensors |-> <<>>]

\* a typed read of n bytes at the cursor of a buffer of byteLength bytes
Rd(st, n, byteLength) ==
  IF st.err # "none" THEN st
  ELSE IF _need(st.offset, n, byteLength) THEN [st EXCEPT !.err = "BUFFER_TOO_SMALL"]
  ELSE [st EXCEPT !.offset = @ + n]

\* readString at the cursor: 8-byte length, then len bytes
RdString(st, len, byteLength) == Rd(Rd(st, 8, byteLength), len, byteLength)

Throw(st, e) == IF st.err # "none" THEN st ELSE [st EXCEPT !.err = e]

RECURSIVE readValue(_, _, _, _)
RECURSIVE readArray(_, _, _, _, _)
\* the loop of the GGUFValueType.ARRAY case: readValue(arrType) for elements i..arrLen
readArray(st, arrType, elems, i, byteLength) ==
  IF i > Len(elems) \/ st.err # "none" THEN st
  ELSE readArray(readValue(st, arrType, elems[i], byteLength), arrType, elems, i + 1, byteLength)

\* readValue(type) where v is what the file holds at the cursor
readValue(st, type, v, byteLength) ==
  IF st.err # "none" THEN st
  ELSE IF ScalarWidth(type) > 0 THEN Rd(st, ScalarWidth(type), byteLength)
  ELSE IF type = GGUFValueType.STRING THEN RdString(st, v.len, byteLength)
  ELSE IF type = GGUFValueType.ARRAY
    THEN readArray(Rd(Rd(st, 4, byteLength), 8, byteLength), v.et, v.elems, 1, byteLength)
  ELSE Throw(st, "Unknown GGUF value type")

\* metadata[key] = value and tensors.push(entry): reached only when the reads
\* before it did not throw
Push(st, local, entry) ==
  IF st.err # "none" THEN st ELSE [st EXCEPT ![local] = Append(@, entry)]

\* metadata loop: entries i..metadataKVCount
RECURSIVE readMetadata(_, _, _, _)
readMetadata(st, kv, i, byteLength) ==
  IF i > Len(kv) \/ st.err # "none" THEN st
  ELSE LET k == RdString(st, kv[i].keyLen, byteLength)
           t == Rd(k, 4, byteLength)
           v == readValue(t, kv[i].vtype, kv[i].val, byteLength)
       IN  readMetadata(Push(v, "metadata", kv[i]), kv, i + 1, byteLength)

\* the dimension loop: nDims reads of 8 bytes
RECURSIVE readDims(_, _, _)
readDims(st, nDims, byteLength) ==
  IF nDims = 0 THEN st ELSE readDims(Rd(st, 8, byteLength), nDims - 1, byteLength)

\* one tensor-info entry: name, nDims, dims, type, offset
readTensorInfo(st, t, byteLength) ==
  LET n == RdString(st, t.nameLen, byteLength)
      nd == Rd(n, 4, byteLength)
      ds == readDims(nd, Len(t.dims), byteLength)
  IN  Rd(Rd(ds, 4, byteLength), 8, byteLength)

RECURSIVE Product(_)
Product(s) == IF s = <<>> THEN 1 ELSE Head(s) * Product(Tail(s))

\* QUANT_INFO of the encodings the layouts use
QUANT_INFO(type) ==
  CASE type = GGMLType.F32 -> [known |-> TRUE, blockSize |-> 1, bytesPerBlock |-> 4]
    [] type = GGMLType.F16 -> [known |-> TRUE, blockSize |-> 1, bytesPerBlock |-> 2]
    [] type = GGMLType.BF16 -> [known |-> TRUE, blockSize |-> 1, bytesPerBlock |-> 2]
    [] type = GGMLType.Q4_0 -> [known |-> TRUE, blockSize |-> 32, bytesPerBlock |-> 18]
    [] type = GGMLType.Q8_0 -> [known |-> TRUE, blockSize |-> 32, bytesPerBlock |-> 34]
    [] type = GGMLType.Q2_K -> [known |-> TRUE, blockSize |-> 256, bytesPerBlock |-> 84]
    [] type = GGMLType.Q4_K_S -> [known |-> TRUE, blockSize |-> 256, bytesPerBlock |-> 144]
    [] type = GGMLType.I8 -> [known |-> TRUE, blockSize |-> 1, bytesPerBlock |-> 1]
    [] OTHER -> [known |-> FALSE, blockSize |-> 1, bytesPerBlock |-> 4]

\* the entry pushed to tensors
TensorInfo(t) ==
  LET numElements == Product(t.dims)
      info == QUANT_INFO(t.type)
  IN  [name |-> t.name, dims |-> t.dims, type |-> t.type, offset |-> t.offset,
       numElements |-> numElements,
       dataSize |-> IF info.known
                      THEN CeilDiv(numElements, info.blockSize) * info.bytesPerBlock
                      ELSE numElements * 4]

\* tensor-info loop: entries i..tensorCount, each pushed once it is read whole
RECURSIVE readTensors(_, _, _, _)
readTensors(st, ts, i, byteLength) ==
  IF i > Len(ts) \/ st.err # "none" THEN st
  ELSE readTensors(Push(readTensorInfo(st, ts[i], byteLength), "tensors", TensorInfo(ts[i])),
                   ts, i + 1, byteLength)

\* the alignment rounding down instead of up
AlignUp_floor(headerEnd) == (headerEnd \div ALIGNMENT) * ALIGNMENT

\* Math.ceil(headerEnd / ALIGNMENT) * ALIGNMENT
AlignUp(headerEnd) == CeilDiv(headerEnd, ALIGNMENT) * ALIGNMENT

NoResult ==
  [err |-> "none", headerEnd |-> 0, tensorDataOffset |-> 0, version |-> 0,
   metadata |-> <<>>, tensors |-> <<>>, tensorCount |-> 0, progress |-> FALSE,
   partial |-> <<>>]

\* what _parseHeader hands back once the reader stopped at ts: the value
\* returned or the exception thrown, with the cursor position where parsing
\* stopped (headerEnd); partial is the local tensors array as the exception
\* left it
headerResult(file, progress, ts) ==
  IF ts.err # "none"
    THEN [NoResult EXCEPT !.err = ts.err, !.headerEnd = ts.offset,
                          !.progress = progress, !.partial = ts.tensors]
    ELSE [err |-> "none", headerEnd |-> ts.offset,
          tensorDataOffset |-> AlignUp(ts.offset), version |-> file.version,
          metadata |-> ts.metadata, tensors |-> ts.tensors,
          tensorCount |-> Len(file.tensors), progress |-> TRUE, partial |-> <<>>]

\* _parseHeader(file, readSize) over the slice file.slice(0, readSize)
_parseHeader(file, readSize) ==
  LET byteLength == Min(Max(readSize, 0), file.size)     \* file.slice(0, readSize)
      m == Rd(Cursor(0), 4, byteLength)
      mc == IF m.err = "none" /\ file.magic # GGUF_MAGIC
              THEN Throw(m, "Not a valid GGUF file") ELSE m
      v == Rd(mc, 4, byteLength)
      vc == IF v.err = "none" /\ (file.version < 2 \/ file.version > 3)
              THEN Throw(v, "Unsupported GGUF version") ELSE v
      counts == Rd(Rd(vc, 8, byteLength), 8, byteLength)
      md == readMetadata(counts, file.kv, 1, byteLength)
      ts == readTensors(md, file.tensors, 1, byteLength)
  IN  headerResult(file, counts.err = "none", ts)

IsFormatError(e) == e \notin {"none", "BUFFER_TOO_SMALL"}

\* ------------------------------------------------------------------------
\* parseGGUFHeader: the retry loop
\* ------------------------------------------------------------------------
\* the growth the source comment announces ("double on each retry")
NextReadSize_double(readSize, size) == Min(size, readSize * 2)

\* readSize = Math.min(file.size, readSize * 4)
NextReadSize(readSize, size) == Min(size, readSize * 4)

\* the activation at its first iteration
parseGGUFHeader(file) ==
  [file |-> file, readSize |-> Min(file.size, INITIAL_READ_SIZE), pc |-> "try",
   res |-> NoResult, reads |-> <<>>, errs |-> <<>>]

NoParse ==
  [file |-> [name |-> <<>>, size |-> 0, magic |-> 0, version |-> 0, kv |-> <<>>, tensors |-> <<>>],
   readSize |-> 0, pc |-> "idle", res |-> NoResult, reads |-> <<>>, errs |-> <<>>]

\* an iteration whose tensors array outlives the attempt: the entries a failed
\* attempt pushed stay in front of those of the next one
parseAttempt_keep(p) ==
  LET r == _parseHeader(p.file, p.readSize)
      k == IF r.err = "none" THEN [r EXCEPT !.tensors = p.res.partial \o @] ELSE r
      q == [p EXCEPT !.reads = Append(@, p.readSize), !.errs = Append(@, r.err), !.res = k]
  IN  IF r.err = "none" THEN [q EXCEPT !.pc = "returned"]
      ELSE IF r.err = "BUFFER_TOO_SMALL" /\ p.readSize < p.file.size
        THEN [q EXCEPT !.readSize = NextReadSize(p.readSize, p.file.size)]
      ELSE [q EXCEPT !.pc = "threw"]

\* one iteration of while (true): the read, the parse, the catch
parseAttempt(p) ==
  LET r == _parseHeader(p.file, p.readSize)
      q == [p EXCEPT !.reads = Append(@, p.readSize), !.errs = Append(@, r.err), !.res = r]
  IN  IF r.err = "none" THEN [q EXCEPT !.pc = "returned"]
      ELSE IF r.err = "BUFFER_TOO_SMALL" /\ p.readSize < p.file.size
        THEN [q EXCEPT !.readSize = NextReadSize(p.readSize, p.file.size)]
      ELSE [q EXCEPT !.pc = "threw"]

\* ------------------------------------------------------------------------
\* The files of the bounded checks
\* ------------------------------------------------------------------------
GGUFName == <<"m", ".", "G", "g", "u", "f">>

Scalar == [len |-> 0, et |-> 0, elems |-> <<>>]

Str(n) == [len |-> n, et |-> 0, elems |-> <<>>]

Arr(et, elems) == [len |-> 0, et |-> et, elems |-> elems]

KVChoices ==
  { [key |-> "general.architecture", keyLen |-> 20, vtype |-> GGUFValueType.STRING, val |-> Str(5)],
    [key |-> "llama.block_count", keyLen |-> 17, vtype |-> GGUFValueType.UINT32, val |-> Scalar],
    [key |-> "tokenizer.ggml.tokens", keyLen |-> 21, vtype |-> GGUFValueType.ARRAY,
     val |-> Arr(GGUFValueType.STRING, <<Str(3), Str(INITIAL_READ_SIZE)>>)],
    [key |-> "tokenizer.ggml.merges", keyLen |-> 21, vtype |-> GGUFValueType.STRING,
     val |-> Str(4 * INITIAL_READ_SIZE)],
    [key |-> "tokenizer.chat_template", keyLen |-> 23, vtype |-> GGUFValueType.STRING,
     val |-> Str(INITIAL_READ_SIZE - 160)],
    [key |-> "x", keyLen |-> 1, vtype |-> 13, val |-> Scalar] }

TensorChoices ==
  { [name |-> "token_embd.weight", nameLen |-> 17, dims |-> <<64, 32>>, type |-> GGMLType.Q8_0, offset |-> 0],
    [name |-> "blk.0.attn_norm.weight", nameLen |-> 22, dims |-> <<64>>, type |-> GGMLType.F32, offset |-> 2176],
    [name |-> "t", nameLen |-> 1, dims |-> <<2, 3, 4>>, type |-> 99, offset |-> 2432] }

SeqsUpTo(S, n) == UNION {[1..k -> S] : k \in 0..n}

FileSizes ==
  {0, 6, 20, 100, INITIAL_READ_SIZE, INITIAL_READ_SIZE + 64,
   5 * INITIAL_READ_SIZE + 4096, 16 * INITIAL_READ_SIZE}

ParseFiles ==
  { [name |-> GGUFName, size |-> sz, magic |-> mg, version |-> ver, kv |-> kv, tensors |-> ts] :
      sz \in FileSizes, mg \in {GGUF_MAGIC, 0}, ver \in {1, 2, 3},
      kv \in SeqsUpTo(KVChoices, MaxKV), ts \in SeqsUpTo(TensorChoices, MaxTensors) }

\* ------------------------------------------------------------------------
\* Idle values of the application's variables
\* ------------------------------------------------------------------------
PointCounts == {1000000, 3000000}

ColorModes == {"weight", "tensor", "layer"}

NoCloud == [id |-> 0, file |-> "null", parsed |-> "null", points |-> 0, mode |-> "none"]

NoLines == [cloud |-> 0, visible |-> FALSE]

AppIdle ==
  /\ currentFile = "null"
  /\ parsedData = "null"
  /\ isGenerating = FALSE
  /\ lastPointCloudData = NoCloud
  /\ pointSlider = 1000000
  /\ colorMode = "weight"
  /\ connectionsToggle = FALSE
  /\ regenerateTimeout = FALSE
  /\ connDensityTimeout = FALSE
  /\ pointCloud = NoCloud
  /\ connectionLines = NoLines
  /\ loads = <<>>
  /\ gens = {}
  /\ genSeq = 0
  /\ genFailed = FALSE
  /\ events = 0

ParseIdle == hp = NoParse

\* no call of an exported function is under way
NoCall == [pc |-> "idle"]

FnIdle ==
  /\ classifyCall = NoCall
  /\ archCall = NoCall
  /\ layoutCall = NoCall
  /\ sampleCall = NoCall
  /\ cloudCall = NoCall
  /\ connCall = NoCall

\* ------------------------------------------------------------------------
\* SpecReader: typed reads on one BufferReader
\* ------------------------------------------------------------------------
InitReader ==
  /\ buf \in Buffers
  /\ offset = 0
  /\ accessed = {}
  /\ lastRead = NoRead
  /\ ParseIdle
  /\ AppIdle
  /\ FnIdle

ReadTypedStep == ReadTyped /\ UNCHANGED <<parseVars, appVars, fnVars>>

ReadStringStep == readString /\ UNCHANGED <<parseVars, appVars, fnVars>>

NextReader == ReadTypedStep \/ ReadStringStep

SpecReader == InitReader /\ [][NextReader]_vars

\* ------------------------------------------------------------------------
\* SpecParse: one call of parseGGUFHeader
\* ------------------------------------------------------------------------
InitParse ==
  /\ hp \in {parseGGUFHeader(f) : f \in ParseFiles}
  /\ ReaderIdle
  /\ AppIdle
  /\ FnIdle

ParseAttempt ==
  /\ hp.pc = "try"
  /\ hp' = parseAttempt(hp)
  /\ UNCHANGED <<readerVars, appVars, fnVars>>

NextParse == ParseAttempt

SpecParse == InitParse /\ [][NextParse]_vars

\* ------------------------------------------------------------------------
\* Properties of parseGGUFHeader (SpecParse)
\* ------------------------------------------------------------------------
\* C1: the insufficient-data condition never escapes parseGGUFHeader: a call
\* that throws never throws BUFFER_TOO_SMALL.
C1_NoBufferTooSmallEscapes ==
  hp.pc = "threw" => hp.res.err # "BUFFER_TOO_SMALL"

\* number of attempts the schedule allows for a file of this size
RECURSIVE ScheduleLen(_, _)
ScheduleLen(readSize, size) ==
  IF readSize >= size THEN 1 ELSE 1 + ScheduleLen(Min(size, 4 * readSize), size)

C4_DataOffsetAligned ==
  hp.pc = "returned" =>
    /\ hp.res.tensorDataOffset % 32 = 0
    /\ hp.res.tensorDataOffset >= hp.res.headerEnd
    /\ hp.res.tensorDataOffset < hp.res.headerEnd + 32

\* a parsed header with tensors whose end is not on a 32-byte boundary
C4_Witness ==
  /\ hp.pc = "returned"
  /\ Len(hp.res.tensors) >= 1
  /\ hp.res.headerEnd % 32 # 0
  /\ hp.res.tensorDataOffset > hp.res.headerEnd

\* ------------------------------------------------------------------------
\* Properties of BufferReader (SpecReader)
\* ------------------------------------------------------------------------
\* the length a string declares at the cursor, as the exact 64-bit value
DeclaredLen == ExactNum(Bytes(buf, offset, 8))

\* what one typed read may do to the position and to the bytes it touches
C5_ReadStep ==
  LET L == Len(buf)
      op == lastRead'.op
  IN  /\ op \in DOMAIN FixedOps =>
           /\ lastRead'.ok <=> offset + FixedOps[op] <= L
           /\ lastRead'.ok => offset' = offset + FixedOps[op]
           /\ ~lastRead'.ok => offset' = offset /\ accessed' = accessed
      /\ op = "readString" =>
           /\ lastRead'.ok <=>
                /\ offset + 8 <= L
                /\ IsSmall(DeclaredLen)
                /\ offset + 8 + SmallVal(DeclaredLen) <= L
           /\ lastRead'.ok => offset' = offset + 8 + SmallVal(DeclaredLen)
           /\ ~lastRead'.ok => offset' \in {offset, offset + 8}
      /\ accessed' \subseteq 0..(L - 1)

\* C5: the read position stays within 0..L, no byte at index >= L is
\* accessed, a read that fits advances by the type's width (8 + declared
\* length for a string) and a read that would pass the end fails.
C5_ReaderInBounds ==
  /\ [](offset \in 0..Len(buf) /\ accessed \subseteq 0..(Len(buf) - 1))
  /\ [][C5_ReadStep]_vars

\* a non-empty string read that ends exactly at the end of the buffer
C5_Witness ==
  /\ lastRead.op = "readString"
  /\ lastRead.ok
  /\ SmallVal(lastRead.num) >= 1
  /\ offset = Len(buf)

\* C6: readUint64 returns the 64-bit value of its eight bytes exactly.
C6_Uint64Lossless ==
  (lastRead.op = "readUint64" /\ lastRead.ok) => lastRead.num = ExactNum(lastRead.raw)

\* ------------------------------------------------------------------------
\* The application (main.js): files, handleFile, the worker
\* ------------------------------------------------------------------------
KVArch == CHOOSE k \in KVChoices : k.key = "general.architecture"

TensorList == <<CHOOSE t \in TensorChoices : t.name = "token_embd.weight",
                CHOOSE t \in TensorChoices : t.name = "blk.0.attn_norm.weight">>

\* the files the user can drop: a valid model, a file with a bad magic and
\* a file that is no .gguf
AppFile(id) ==
  CASE id = "ok" ->
         [name |-> GGUFName, size |-> 5 * INITIAL_READ_SIZE + 4096, magic |-> GGUF_MAGIC,
          version |-> 3, kv |-> <<KVArch>>, tensors |-> TensorList]
    [] id = "bad" ->
         [name |-> <<"b", ".", "g", "g", "u", "f">>, size |-> 100, magic |-> 0,
          version |-> 3, kv |-> <<KVArch>>, tensors |-> TensorList]
    [] OTHER ->
         [name |-> <<"n", ".", "t", "x", "t">>, size |-> 100, magic |-> 0,
          version |-> 0, kv |-> <<>>, tensors |-> <<>>]

AppFileIds == {"ok", "bad", "txt"}

\* String.prototype.toLowerCase on the letters the names use
toLowerCase(name) ==
  [i \in 1..Len(name) |->
     CASE name[i] = "G" -> "g" [] name[i] = "U" -> "u" [] name[i] = "F" -> "f"
       [] OTHER -> name[i]]

\* String.prototype.endsWith
endsWith(str, suffix) ==
  /\ Len(str) >= Len(suffix)
  /\ SubSeq(str, Len(str) - Len(suffix) + 1, Len(str)) = suffix

\* file.name.toLowerCase().endsWith('.gguf')
IsGGUFName(file) == endsWith(toLowerCase(file.name), <<".", "g", "g", "u", "f">>)

\* an activation of handleFile together with its parseHeaderInWorker promise
\*   pc      : "worker" awaiting the worker promise, "main" awaiting
\*             parseGGUFHeader on the main thread, "done", "failed" (the
\*             outer catch alerted), "alerted" (not a .gguf name)
\*   worker  : "none" (never created), "running", "terminated"
\*   wp, mp  : parseGGUFHeader in the worker and on the main thread
\*   queue   : messages posted by the worker and not yet delivered
\*   workerErr: the reason the worker promise was rejected with
\*   failure : the error the outer catch alerted
\*   attempts: ghost, the outcome of every _parseHeader call of this load
\*   lateActs: ghost, worker messages handled after the promise had settled
NewLoad(id) ==
  [file |-> id, pc |-> "alerted", worker |-> "none", promise |-> "none", settles |-> 0,
   timer |-> FALSE, wp |-> NoParse, mp |-> NoParse, queue |-> <<>>,
   attempts |-> <<>>, lateActs |-> 0, workerErr |-> "none", failure |-> "none"]

\* worker.terminate(): the worker and its activation of parseGGUFHeader are
\* gone and its undelivered messages are dropped
terminate(l) ==
  [l EXCEPT !.worker = IF @ = "none" THEN @ ELSE "terminated", !.queue = <<>>, !.wp = NoParse]

\* catch (workerErr): parse on the main thread
WorkerCatch(l) == [l EXCEPT !.pc = "main", !.mp = parseGGUFHeader(AppFile(l.file))]

\* reject(e) of the worker promise and, when it settles the promise, the
\* continuation of handleFile that awaits it
reject(l, e) ==
  IF l.promise # "pending" THEN l
  ELSE WorkerCatch([l EXCEPT !.promise = "rejected", !.settles = @ + 1, !.workerErr = e])

\* resolve(msg) of the worker promise
resolve(l) ==
  IF l.promise # "pending" THEN l
  ELSE [l EXCEPT !.promise = "resolved", !.settles = @ + 1, !.pc = "done"]

\* the timeout callback without worker.terminate()
WorkerTimeout_noTerminate(l) ==
  reject([l EXCEPT !.timer = FALSE], "Worker timeout")

\* setTimeout callback: worker.terminate(); reject(new Error('Worker timeout'))
WorkerTimeout(l) ==
  reject(terminate([l EXCEPT !.timer = FALSE]), "Worker timeout")

\* parseHeaderInWorker(file): the promise executor
parseHeaderInWorker(id, created) ==
  IF created
    THEN [NewLoad(id) EXCEPT !.pc = "worker", !.worker = "running", !.promise = "pending",
                             !.timer = TRUE, !.wp = parseGGUFHeader(AppFile(id))]
    ELSE reject([NewLoad(id) EXCEPT !.pc = "worker", !.promise = "pending"], "Worker unavailable")

\* ------------------------------------------------------------------------
\* regeneratePointCloud and the renderer
\* ------------------------------------------------------------------------
\* regeneratePointCloud without the isGenerating test
regeneratePointCloud_noGuard(cf, pd, points, mode) ==
  IF pd = "null" \/ cf = "null"
    THEN UNCHANGED genVars
    ELSE /\ isGenerating' = TRUE
         /\ genSeq' = genSeq + 1
         /\ gens' = gens \cup {[id |-> genSeq + 1, file |-> cf, parsed |-> pd,
                                points |-> points, mode |-> mode]}

\* regeneratePointCloud up to its await: the guard, isGenerating = true, the
\* call of generatePointCloud with the values read at that moment
regeneratePointCloud(cf, pd, points, mode) ==
  IF pd = "null" \/ cf = "null" \/ isGenerating
    THEN UNCHANGED genVars
    ELSE /\ isGenerating' = TRUE
         /\ genSeq' = genSeq + 1
         /\ gens' = gens \cup {[id |-> genSeq + 1, file |-> cf, parsed |-> pd,
                                points |-> points, mode |-> mode]}

\* generateConnections(...).lineCount > 0: some rule joins two regions
HasLines(cloud) == Len(AppFile(cloud.parsed).tensors) >= 2

\* renderer.setConnections(linePos, lineCol) with the lines of this cloud
setConnections(cloud) ==
  IF HasLines(cloud) THEN [cloud |-> cloud.id, visible |-> TRUE] ELSE NoLines

\* rebuildConnections(): the new value of renderer.connectionLines
rebuildConnections(lpcd) ==
  IF lpcd = NoCloud THEN connectionLines ELSE setConnections(lpcd)

\* renderer.toggleConnections(visible)
toggleConnections(visible) ==
  IF connectionLines = NoLines THEN connectionLines
  ELSE [connectionLines EXCEPT !.visible = visible]

\* lines are built only when the renderer has none: existing lines are kept
ConnectionsAfterGenerate_keep(cloud) ==
  IF connectionsToggle /\ connectionLines = NoLines
    THEN rebuildConnections(cloud) ELSE connectionLines

\* if (connectionsToggle.checked) rebuildConnections(), after the new cloud
\* has become lastPointCloudData
ConnectionsAfterGenerate(cloud) ==
  IF connectionsToggle THEN rebuildConnections(cloud) ELSE connectionLines

\* ------------------------------------------------------------------------
\* Spec: the event loop of the application
\* ------------------------------------------------------------------------
Init ==
  /\ currentFile = "null"
  /\ parsedData = "null"
  /\ isGenerating = FALSE
  /\ lastPointCloudData = NoCloud
  /\ pointSlider = 1000000
  /\ colorMode = "weight"
  /\ connectionsToggle \in BOOLEAN
  /\ regenerateTimeout = FALSE
  /\ connDensityTimeout = FALSE
  /\ pointCloud = NoCloud
  /\ connectionLines = NoLines
  /\ loads = <<>>
  /\ gens = {}
  /\ genSeq = 0
  /\ genFailed = FALSE
  /\ events = 0
  /\ ReaderIdle
  /\ ParseIdle
  /\ FnIdle

Frame == UNCHANGED <<readerVars, parseVars, fnVars>>

\* handleFile(file) on a name that does not end in .gguf: alert and return
HandleFileAlert(id) ==
  /\ events < MaxEvents
  /\ events' = events + 1
  /\ ~IsGGUFName(AppFile(id))
  /\ loads' = Append(loads, NewLoad(id))
  /\ UNCHANGED <<currentFile, parsedData, uiVars, genVars, rendVars>>
  /\ Frame

\* handleFile(file) up to its first await: currentFile = file, then
\* parseHeaderInWorker creates the worker or rejects at once
HandleFile(id, created) ==
  /\ events < MaxEvents
  /\ events' = events + 1
  /\ IsGGUFName(AppFile(id))
  /\ currentFile' = id
  /\ loads' = Append(loads, parseHeaderInWorker(id, created))
  /\ UNCHANGED <<parsedData, uiVars, genVars, rendVars>>
  /\ Frame

Progress == [type |-> "progress", message |-> "none"]

\* the worker's onmessage: one iteration of parseGGUFHeader in the worker,
\* posting progress and, at the end, the result or the error
WorkerStep(i) ==
  LET l == loads[i]
      wp2 == parseAttempt(l.wp)
      posted ==
        (IF wp2.res.progress THEN <<Progress>> ELSE <<>>) \o
        (IF wp2.pc = "returned" THEN <<[type |-> "result", message |-> "none"]>>
         ELSE IF wp2.pc = "threw" THEN <<[type |-> "error", message |-> wp2.res.err]>>
         ELSE <<>>)
  IN  /\ l.worker = "running"
      /\ l.wp.pc = "try"
      /\ loads' = [loads EXCEPT ![i] =
                     [l EXCEPT !.wp = wp2, !.queue = @ \o posted,
                               !.attempts = Append(@, wp2.res.err)]]
      /\ UNCHANGED <<currentFile, parsedData, uiVars, genVars, rendVars>>
      /\ UNCHANGED events
      /\ Frame

\* the message handler has run once more; late when the promise had settled
Handled(l) ==
  [l EXCEPT !.queue = Tail(@), !.lateActs = IF l.promise # "pending" THEN @ + 1 ELSE @]

\* worker.onmessage, msg.type === 'progress'
DeliverProgress(i) ==
  LET l == loads[i] IN
  /\ l.queue # <<>>
  /\ Head(l.queue).type = "progress"
  /\ loads' = [loads EXCEPT ![i] = Handled(l)]
  /\ UNCHANGED <<currentFile, parsedData, uiVars, genVars, rendVars>>
  /\ UNCHANGED events
  /\ Frame

\* worker.onmessage, msg.type === 'result': clearTimeout, terminate, resolve;
\* handleFile continues: parsedData = ..., await regeneratePointCloud()
DeliverResult(i) ==
  LET l == loads[i] IN
  /\ l.queue # <<>>
  /\ Head(l.queue).type = "result"
  /\ loads' = [loads EXCEPT ![i] = resolve(terminate([Handled(l) EXCEPT !.timer = FALSE]))]
  /\ IF l.promise = "pending"
       THEN /\ parsedData' = l.file
            /\ regeneratePointCloud(currentFile, l.file, pointSlider, colorMode)
       ELSE UNCHANGED <<parsedData, genVars>>
  /\ UNCHANGED <<currentFile, uiVars, rendVars>>
  /\ UNCHANGED events
  /\ Frame

\* worker.onmessage, msg.type === 'error': clearTimeout, terminate, reject
DeliverError(i) ==
  LET l == loads[i] IN
  /\ l.queue # <<>>
  /\ Head(l.queue).type = "error"
  /\ loads' = [loads EXCEPT ![i] =
                 reject(terminate([Handled(l) EXCEPT !.timer = FALSE]), Head(l.queue).message)]
  /\ UNCHANGED <<currentFile, parsedData, uiVars, genVars, rendVars>>
  /\ UNCHANGED events
  /\ Frame

\* worker.onerror: clearTimeout, terminate, reject
WorkerError(i) ==
  LET l == loads[i] IN
  /\ l.worker = "running"
  /\ l.promise = "pending"
  /\ loads' = [loads EXCEPT ![i] = reject(terminate([l EXCEPT !.timer = FALSE]), "Worker error")]
  /\ UNCHANGED <<currentFile, parsedData, uiVars, genVars, rendVars>>
  /\ UNCHANGED events
  /\ Frame

\* the 3 min timer fires
Timeout(i) ==
  /\ loads[i].timer
  /\ loads' = [loads EXCEPT ![i] = WorkerTimeout(loads[i])]
  /\ UNCHANGED <<currentFile, parsedData, uiVars, genVars, rendVars>>
  /\ UNCHANGED events
  /\ Frame

\* one iteration of parseGGUFHeader on the main thread; when it returns,
\* handleFile continues as after the worker; when it throws, the outer catch
MainParseStep(i) ==
  LET l == loads[i]
      mp2 == parseAttempt(l.mp)
  IN  /\ l.pc = "main"
      /\ l.mp.pc = "try"
      /\ loads' = [loads EXCEPT ![i] =
                     [l EXCEPT !.mp = mp2,
                               !.attempts = Append(@, mp2.res.err),
                               !.pc = CASE mp2.pc = "returned" -> "done"
                                        [] mp2.pc = "threw" -> "failed"
                                        [] OTHER -> "main",
                               !.failure = IF mp2.pc = "threw" THEN mp2.res.err ELSE @]]
      /\ IF mp2.pc = "returned"
           THEN /\ parsedData' = l.file
                /\ regeneratePointCloud(currentFile, l.file, pointSlider, colorMode)
           ELSE UNCHANGED <<parsedData, genVars>>
      /\ UNCHANGED <<currentFile, uiVars, rendVars>>
      /\ UNCHANGED events
      /\ Frame

\* generatePointCloud resolves: setPointCloud, lastPointCloudData, the
\* connections, isGenerating = false
GenComplete(g) ==
  /\ g \in gens
  /\ pointCloud' = g
  /\ lastPointCloudData' = g
  /\ connectionLines' = ConnectionsAfterGenerate(g)
  /\ genFailed' = FALSE
  /\ isGenerating' = FALSE
  /\ gens' = gens \ {g}
  /\ UNCHANGED <<currentFile, parsedData, loads, uiVars, genSeq>>
  /\ UNCHANGED events
  /\ Frame

\* the catch without the release of the guard behind it
GenFail_stuck(g) ==
  /\ g \in gens
  /\ genFailed' = TRUE
  /\ gens' = gens \ {g}
  /\ UNCHANGED <<currentFile, parsedData, loads, uiVars, genSeq, isGenerating,
                 pointCloud, connectionLines, lastPointCloudData>>
  /\ UNCHANGED events
  /\ Frame

\* generatePointCloud rejects: the catch, isGenerating = false (a throw of
\* a later statement of the try block reaches the same catch)
GenFail(g) ==
  /\ g \in gens
  /\ genFailed' = TRUE
  /\ isGenerating' = FALSE
  /\ gens' = gens \ {g}
  /\ UNCHANGED <<currentFile, parsedData, loads, uiVars, genSeq,
                 pointCloud, connectionLines, lastPointCloudData>>
  /\ UNCHANGED events
  /\ Frame

\* pointSlider 'change': restart the 100 ms timer
SliderChange(v) ==
  /\ v # pointSlider
  /\ events < MaxEvents
  /\ events' = events + 1
  /\ pointSlider' = v
  /\ regenerateTimeout' = TRUE
  /\ UNCHANGED <<currentFile, parsedData, loads, genVars, rendVars,
                 colorMode, connectionsToggle, connDensityTimeout>>
  /\ Frame

\* the regenerate timer fires
RegenTimerFire ==
  /\ regenerateTimeout
  /\ regenerateTimeout' = FALSE
  /\ regeneratePointCloud(currentFile, parsedData, pointSlider, colorMode)
  /\ UNCHANGED <<currentFile, parsedData, loads, rendVars,
                 pointSlider, colorMode, connectionsToggle, connDensityTimeout>>
  /\ UNCHANGED events
  /\ Frame

\* colorMode 'change'
ColorModeChange(m) ==
  /\ m # colorMode
  /\ events < MaxEvents
  /\ events' = events + 1
  /\ colorMode' = m
  /\ regeneratePointCloud(currentFile, parsedData, pointSlider, m)
  /\ UNCHANGED <<currentFile, parsedData, loads, rendVars,
                 pointSlider, connectionsToggle, regenerateTimeout, connDensityTimeout>>
  /\ Frame

\* connectionsToggle 'change'
ConnToggleChange ==
  /\ events < MaxEvents
  /\ events' = events + 1
  /\ connectionsToggle' = ~connectionsToggle
  /\ connectionLines' = IF ~connectionsToggle
                          THEN rebuildConnections(lastPointCloudData)
                          ELSE toggleConnections(FALSE)
  /\ UNCHANGED <<currentFile, parsedData, loads, genVars, pointCloud, lastPointCloudData,
                 genFailed, pointSlider, colorMode, regenerateTimeout, connDensityTimeout>>
  /\ Frame

\* connDensitySlider 'change': restart the 100 ms timer
ConnDensityChange ==
  /\ ~connDensityTimeout
  /\ events < MaxEvents
  /\ events' = events + 1
  /\ connDensityTimeout' = TRUE
  /\ UNCHANGED <<currentFile, parsedData, loads, genVars, rendVars,
                 pointSlider, colorMode, connectionsToggle, regenerateTimeout>>
  /\ Frame

\* the density timer fires
ConnDensityTimerFire ==
  /\ connDensityTimeout
  /\ connDensityTimeout' = FALSE
  /\ connectionLines' = IF connectionsToggle
                          THEN rebuildConnections(lastPointCloudData)
                          ELSE connectionLines
  /\ UNCHANGED <<currentFile, parsedData, loads, genVars, pointCloud, lastPointCloudData,
                 genFailed, pointSlider, colorMode, connectionsToggle, regenerateTimeout>>
  /\ UNCHANGED events
  /\ Frame

Next ==
  \/ \E id \in AppFileIds : HandleFileAlert(id)
  \/ \E id \in AppFileIds, created \in BOOLEAN : HandleFile(id, created)
  \/ \E i \in 1..Len(loads) : WorkerStep(i)
  \/ \E i \in 1..Len(loads) : DeliverProgress(i)
  \/ \E i \in 1..Len(loads) : DeliverResult(i)
  \/ \E i \in 1..Len(loads) : DeliverError(i)
  \/ \E i \in 1..Len(loads) : WorkerError(i)
  \/ \E i \in 1..Len(loads) : Timeout(i)
  \/ \E i \in 1..Len(loads) : MainParseStep(i)
  \/ \E g \in gens : GenComplete(g)
  \/ \E g \in gens : GenFail(g)
  \/ \E v \in PointCounts : SliderChange(v)
  \/ RegenTimerFire
  \/ \E m \in ColorModes : ColorModeChange(m)
  \/ ConnToggleChange
  \/ ConnDensityChange
  \/ ConnDensityTimerFire

Spec == Init /\ [][Next]_vars

\* a generatePointCloud call settles: its promise is resolved or rejected
\* and the continuation of regeneratePointCloud runs
SpecLive == Spec /\ WF_vars(\E g \in gens : GenComplete(g) \/ GenFail(g))

\* ------------------------------------------------------------------------
\* Properties of the application (Spec)
\* ------------------------------------------------------------------------
Loads == {loads[i] : i \in 1..Len(loads)}

\* C2: a format error is fatal: within one load no parse attempt follows an
\* attempt that failed with a format error, and the load is aborted with it.
C2_FormatErrorFatal ==
  \A l \in Loads :
    /\ \A k \in 1..(Len(l.attempts) - 1) : ~IsFormatError(l.attempts[k])
    /\ l.pc = "failed" => l.failure = l.attempts[Len(l.attempts)]

\* nothing is in flight and nothing is pending
Quiescent ==
  /\ ~isGenerating
  /\ gens = {}
  /\ ~regenerateTimeout
  /\ \A l \in Loads : l.pc \in {"done", "failed", "alerted"}

\* C7: once nothing is in flight or pending, the displayed cloud was
\* generated with the current point count, colour mode and parsed file.
C7_LatestRequestDisplayed ==
  (Quiescent /\ parsedData # "null" /\ ~genFailed) =>
    /\ pointCloud.points = pointSlider
    /\ pointCloud.mode = colorMode
    /\ pointCloud.parsed = parsedData

\* C8: at most one generatePointCloud call is unsettled, and none is started
\* while another is.
C8_OneGenerationInFlight ==
  /\ [](Cardinality(gens) <= 1)
  /\ [][genSeq' # genSeq => gens = {} /\ ~isGenerating]_vars

\* a colour-mode change arrived while a generation was in flight
C8_Witness ==
  /\ isGenerating
  /\ \E g \in gens : g.mode # colorMode

FellBack(l) ==
  /\ l.worker # "running"
  /\ l.queue = <<>>
  /\ ~l.timer
  /\ l.promise = "rejected"
  /\ l.settles = 1
  /\ l.pc \in {"main", "done", "failed"}
  /\ l.mp.pc # "idle"

\* C10: a timed-out worker is terminated, its promise is rejected once, no
\* later worker message is handled and handleFile parses on the main
\* thread; the same when the worker cannot be created.
C10_TimeoutFallsBack ==
  /\ [](\A l \in Loads :
          /\ l.settles <= 1
          /\ l.lateActs = 0
          /\ l.workerErr \in {"Worker timeout", "Worker unavailable"} => FellBack(l)
          /\ l.workerErr = "Worker unavailable" => l.worker = "none")
  /\ [][\A i \in 1..Len(loads) :
          (loads[i].timer /\ loads'[i].workerErr = "Worker timeout") =>
            /\ loads'[i].worker = "terminated"
            /\ loads'[i].pc = "main"
            /\ loads'[i].mp = parseGGUFHeader(AppFile(loads[i].file))]_vars

\* a load that timed out with a worker message undelivered and then parsed
\* its file on the main thread
C10_Witness ==
  \E l \in Loads :
    /\ l.workerErr = "Worker timeout"
    /\ l.attempts = <<"none", "none">>
    /\ l.pc = "done"
    /\ parsedData = l.file

\* ------------------------------------------------------------------------
\* classifyTensor (gguf-parser.js)
\* ------------------------------------------------------------------------
\* largest layer index of the tensor names
MaxLayer == 12

\* a JavaScript string as the sequence of its characters
Chars(name) ==
  CASE name = "." -> <<".">>
    [] name = ".weight" -> <<".", "w", "e", "i", "g", "h", "t">>
    [] name = "attn" -> <<"a", "t", "t", "n">>
    [] name = "attn.k" -> <<"a", "t", "t", "n", ".", "k">>
    [] name = "attn.output" -> <<"a", "t", "t", "n", ".", "o", "u", "t", "p", "u", "t">>
    [] name = "attn.q" -> <<"a", "t", "t", "n", ".", "q">>
    [] name = "attn.v" -> <<"a", "t", "t", "n", ".", "v">>
    [] name = "attn_k" -> <<"a", "t", "t", "n", "_", "k">>
    [] name = "attn_k_norm" -> <<"a", "t", "t", "n", "_", "k", "_", "n", "o", "r", "m">>
    [] name = "attn_ln" -> <<"a", "t", "t", "n", "_", "l", "n">>
    [] name = "attn_norm" -> <<"a", "t", "t", "n", "_", "n", "o", "r", "m">>
    [] name = "attn_o" -> <<"a", "t", "t", "n", "_", "o">>
    [] name = "attn_output" -> <<"a", "t", "t", "n", "_", "o", "u", "t", "p", "u", "t">>
    [] name = "attn_q" -> <<"a", "t", "t", "n", "_", "q">>
    [] name = "attn_q_norm" -> <<"a", "t", "t", "n", "_", "q", "_", "n", "o", "r", "m">>
    [] name = "attn_v" -> <<"a", "t", "t", "n", "_", "v">>
    [] name = "blk." -> <<"b", "l", "k", ".">>
    [] name = "ffn" -> <<"f", "f", "n">>
    [] name = "ffn_down" -> <<"f", "f", "n", "_", "d", "o", "w", "n">>
    [] name = "ffn_down." -> <<"f", "f", "n", "_", "d", "o", "w", "n", ".">>
    [] name = "ffn_down_exps" -> <<"f", "f", "n", "_", "d", "o", "w", "n", "_", "e", "x", "p", "s">>
    [] name = "ffn_gate" -> <<"f", "f", "n", "_", "g", "a", "t", "e">>
    [] name = "ffn_gate." -> <<"f", "f", "n", "_", "g", "a", "t", "e", ".">>
    [] name = "ffn_gate_exps" -> <<"f", "f", "n", "_", "g", "a", "t", "e", "_", "e", "x", "p", "s">>
    [] name = "ffn_gate_inp" -> <<"f", "f", "n", "_", "g", "a", "t", "e", "_", "i", "n", "p">>
    [] name = "ffn_gate_shexp" -> <<"f", "f", "n", "_", "g", "a", "t", "e", "_", "s", "h", "e", "x", "p">>
    [] name = "ffn_norm" -> <<"f", "f", "n", "_", "n", "o", "r", "m">>
    [] name = "ffn_up" -> <<"f", "f", "n", "_", "u", "p">>
    [] name = "ffn_up." -> <<"f", "f", "n", "_", "u", "p", ".">>
    [] name = "ffn_up_exps" -> <<"f", "f", "n", "_", "u", "p", "_", "e", "x", "p", "s">>
    [] name = "lm_head" -> <<"l", "m", "_", "h", "e", "a", "d">>
    [] name = "lm_head.weight" -> <<"l", "m", "_", "h", "e", "a", "d", ".", "w", "e", "i", "g", "h", "t">>
    [] name = "norm" -> <<"n", "o", "r", "m">>
    [] name = "output.weight" -> <<"o", "u", "t", "p", "u", "t", ".", "w", "e", "i", "g", "h", "t">>
    [] name = "output_norm" -> <<"o", "u", "t", "p", "u", "t", "_", "n", "o", "r", "m">>
    [] name = "output_norm.weight" -> <<"o", "u", "t", "p", "u", "t", "_", "n", "o", "r", "m", ".", "w", "e", "i", "g", "h", "t">>
    [] name = "result_norm" -> <<"r", "e", "s", "u", "l", "t", "_", "n", "o", "r", "m">>
    [] name = "rope_freqs.weight" -> <<"r", "o", "p", "e", "_", "f", "r", "e", "q", "s", ".", "w", "e", "i", "g", "h", "t">>
    [] name = "tok_embd" -> <<"t", "o", "k", "_", "e", "m", "b", "d">>
    [] name = "token_embd" -> <<"t", "o", "k", "e", "n", "_", "e", "m", "b", "d">>
    [] name = "token_embd.weight" -> <<"t", "o", "k", "e", "n", "_", "e", "m", "b", "d", ".", "w", "e", "i", "g", "h", "t">>

\* String.prototype.includes
includes(str, sub) ==
  \E i \in 0..(Len(str) - Len(sub)) : SubSeq(str, i + 1, i + Len(sub)) = sub

DigitChars == <<"0", "1", "2", "3", "4", "5", "6", "7", "8", "9">>

IsDigit(c) == \E d \in 1..10 : DigitChars[d] = c

DigitVal(c) == (CHOOSE d \in 1..10 : DigitChars[d] = c) - 1

\* the decimal digits of n >= 0, as a tensor name spells a layer index
RECURSIVE ToDigits(_)
ToDigits(n) ==
  IF n < 10 THEN <<DigitChars[n + 1]>>
  ELSE Append(ToDigits(n \div 10), DigitChars[(n % 10) + 1])

\* parseInt of a run of decimal digits
RECURSIVE parseInt(_)
parseInt(digits) ==
  IF digits = <<>> THEN 0
  ELSE 10 * parseInt(SubSeq(digits, 1, Len(digits) - 1)) + DigitVal(digits[Len(digits)])

\* (\d+) at position i of str: the longest run of digits that starts there
RECURSIVE DigitRun(_, _)
DigitRun(str, i) ==
  IF i <= Len(str) /\ IsDigit(str[i]) THEN <<str[i]>> \o DigitRun(str, i + 1) ELSE <<>>

\* str has the literal lit at position i
HasAt(str, lit, i) ==
  i + Len(lit) - 1 <= Len(str) /\ SubSeq(str, i, i + Len(lit) - 1) = lit

\* n.match(/blk\.(\d+)\./): the digits captured by the leftmost match, or
\* <<>> when the name does not match. A run of digits not followed by a dot
\* can match on a shorter prefix only if a dot follows that prefix, which a
\* digit never is: the longest run decides.
blockMatch(n) ==
  LET hit(i) == /\ HasAt(n, Chars("blk."), i)
                /\ DigitRun(n, i + 4) # <<>>
                /\ HasAt(n, Chars("."), i + 4 + Len(DigitRun(n, i + 4)))
      at == {i \in 1..Len(n) : hit(i)}
  IN  IF at = {} THEN <<>>
      ELSE DigitRun(n, (CHOOSE i \in at : \A j \in at : i <= j) + 4)

\* n.match(/ffn_(?:gate|up|down)\.(\d+)/): the captured digits or <<>>
expMatch(n) ==
  LET heads == {Chars("ffn_gate."), Chars("ffn_up."), Chars("ffn_down.")}
      hit(i) == \E h \in heads : HasAt(n, h, i) /\ DigitRun(n, i + Len(h)) # <<>>
      at == {i \in 1..Len(n) : hit(i)}
      first == CHOOSE i \in at : \A j \in at : i <= j
      head == CHOOSE h \in heads : HasAt(n, h, first)
  IN  IF at = {} THEN <<>> ELSE DigitRun(n, first + Len(head))

\* the if / else-if chain of classifyTensor: the first test that holds
\* decides (nested, since the arms of a CASE are not ordered)
categoryOf(n) ==
  LET has(w) == includes(n, Chars(w)) IN
  IF has("token_embd") \/ has("tok_embd") THEN "embedding"
  ELSE IF has("output_norm") \/ has("result_norm") THEN "output_norm"
  ELSE IF has("output.weight") \/ has("lm_head") THEN "output"
  ELSE IF has("attn_q") \/ has("attn.q") THEN "attn_q"
  ELSE IF has("attn_k") \/ has("attn.k") THEN "attn_k"
  ELSE IF has("attn_v") \/ has("attn.v") THEN "attn_v"
  ELSE IF has("attn_output") \/ has("attn.output") \/ has("attn_o") THEN "attn_out"
  ELSE IF has("attn_norm") \/ has("attn_ln") THEN "attn_norm"
  ELSE IF has("ffn_gate_exps") \/ has("ffn_gate_inp") THEN "moe_gate"
  ELSE IF has("ffn_gate") THEN "ffn_gate"
  ELSE IF has("ffn_up_exps") THEN "moe_up"
  ELSE IF has("ffn_up") THEN "ffn_up"
  ELSE IF has("ffn_down_exps") THEN "moe_down"
  ELSE IF has("ffn_down") THEN "ffn_down"
  ELSE IF has("ffn_norm") THEN "ffn_norm"
  ELSE IF has("attn") THEN "attn_other"
  ELSE IF has("ffn") THEN "ffn_other"
  ELSE IF has("norm") THEN "norm"
  ELSE "other"

\* classifyTensor(name)
classifyTensor(name) ==
  LET n == toLowerCase(name)
      bm == blockMatch(n)
      em == expMatch(n)
  IN  [category |-> categoryOf(n),
       layerIdx |-> IF bm # <<>> THEN parseInt(bm) ELSE -1,
       expertIdx |-> IF em # <<>> THEN parseInt(em) ELSE -1]

\* the per-layer roles <r> of the names blk.<N>.<r>.weight
LayerRoles ==
  {"attn_q", "attn_k", "attn_v", "attn_output", "attn_norm", "ffn_norm",
   "ffn_gate", "ffn_up", "ffn_down", "ffn_gate_inp", "ffn_up_exps",
   "ffn_down_exps", "ffn_gate_exps", "ffn_gate_shexp", "attn_q_norm", "attn_k_norm"}

GlobalNames ==
  {"token_embd.weight", "output_norm.weight", "output.weight", "lm_head.weight",
   "rope_freqs.weight"}

\* blk.<N>.<r>.weight
BlkName(N, r) ==
  Chars("blk.") \o ToDigits(N) \o Chars(".") \o Chars(r) \o Chars(".weight")

\* blk.<N>.<r>.<e>.weight: the tensor of expert e
ExpertName(N, r, e) ==
  Chars("blk.") \o ToDigits(N) \o Chars(".") \o Chars(r) \o Chars(".") \o ToDigits(e)
    \o Chars(".weight")

\* the calls of classifyTensor: the name, and what the name was built from
\* (role "global" with layer -1 for the names outside the blocks)
ClassifyCalls ==
  {[pc |-> "called", name |-> BlkName(N, r), role |-> r, layer |-> N,
    expert |-> -1, out |-> "none"] : N \in 0..MaxLayer, r \in LayerRoles}
  \cup
  {[pc |-> "called", name |-> ExpertName(N, r, e), role |-> r, layer |-> N,
    expert |-> e, out |-> "none"] :
     N \in {0, MaxLayer}, r \in {"ffn_gate", "ffn_up", "ffn_down"}, e \in {0, 7}}
  \cup
  {[pc |-> "called", name |-> Chars(g), role |-> g, layer |-> -1,
    expert |-> -1, out |-> "none"] : g \in GlobalNames}

InitClassify ==
  /\ classifyCall \in ClassifyCalls
  /\ archCall = NoCall
  /\ layoutCall = NoCall
  /\ sampleCall = NoCall
  /\ cloudCall = NoCall
  /\ connCall = NoCall
  /\ ReaderIdle
  /\ ParseIdle
  /\ AppIdle

ClassifyTensor ==
  /\ classifyCall.pc = "called"
  /\ classifyCall' = [classifyCall EXCEPT !.pc = "returned",
                                          !.out = classifyTensor(classifyCall.name)]
  /\ UNCHANGED <<readerVars, parseVars, appVars,
                 archCall, layoutCall, sampleCall, cloudCall, connCall>>

NextClassify == ClassifyTensor

SpecClassify == InitClassify /\ [][NextClassify]_vars

\* the role the standard name blk.<N>.<r>.weight stands for
StandardRole(r) ==
  CASE r = "attn_output" -> "attn_out"
    [] r = "ffn_gate_inp" -> "moe_gate"
    [] r = "ffn_up_exps" -> "moe_up"
    [] r = "ffn_down_exps" -> "moe_down"
    [] OTHER -> r

StandardRoles ==
  {"attn_q", "attn_k", "attn_v", "attn_output", "attn_norm", "ffn_norm",
   "ffn_gate", "ffn_up", "ffn_down", "ffn_gate_inp", "ffn_up_exps", "ffn_down_exps"}

\* the role of a global standard name
GlobalRole(g) ==
  CASE g = "token_embd.weight" -> "embedding"
    [] g = "output_norm.weight" -> "output_norm"
    [] g = "output.weight" -> "output"
    [] OTHER -> "none"

\* C13: every standard per-layer name blk.<N>.<r>.weight is classified as
\* the role of <r> with layerIdx N; the three global names get the
\* embedding, output-norm and output roles, and no per-layer name does.
C13_StandardNamesClassified ==
  classifyCall.pc = "returned" =>
    /\ (classifyCall.layer >= 0 /\ classifyCall.expert < 0
          /\ classifyCall.role \in StandardRoles) =>
         /\ classifyCall.out.category = StandardRole(classifyCall.role)
         /\ classifyCall.out.layerIdx = classifyCall.layer
    /\ GlobalRole(classifyCall.role) # "none" =>
         /\ classifyCall.out.category = GlobalRole(classifyCall.role)
         /\ classifyCall.out.layerIdx = -1
    /\ classifyCall.layer >= 0 =>
         classifyCall.out.category \notin {"embedding", "output_norm", "output"}

\* ------------------------------------------------------------------------
\* extractArchInfo (gguf-parser.js)
\* ------------------------------------------------------------------------
\* JavaScript values: undefined, a number, a string
JSUndefined == [t |-> "undefined", n |-> 0, s |-> ""]

JSNumber(k) == [t |-> "number", n |-> k, s |-> ""]

JSString(x) == [t |-> "string", n |-> 0, s |-> x]

\* metadata[key]: a metadata map is a function from keys to values, a key
\* the sequence of its dot-separated parts
Lookup(metadata, key) == IF key \in DOMAIN metadata THEN metadata[key] ELSE JSUndefined

\* a ?? b
Nullish(a, b) == IF a = JSUndefined THEN b ELSE a

\* a || b: undefined, 0 and '' are falsy
OrElse(a, b) == IF a \in {JSUndefined, JSNumber(0), JSString("")} THEN b ELSE a

\* `${arch}.${key}`
Namespaced(arch, key) == <<arch>> \o key

\* const get = (key) => metadata[key] ?? metadata[`${arch}.${key}`]
get(metadata, arch, key) ==
  Nullish(Lookup(metadata, key), Lookup(metadata, Namespaced(arch, key)))

\* extractArchInfo(metadata): the fields the layout and the claims read;
\* the values of the numeric keys are numbers
extractArchInfo(metadata) ==
  LET arch == OrElse(Lookup(metadata, <<"general", "architecture">>), JSString("unknown")).s
      g(key) == get(metadata, arch, key)
      num(key) == OrElse(g(key), JSNumber(0)).n
      blockCount == num(<<"block_count">>)
      embeddingLength == num(<<"embedding_length">>)
      headCount == num(<<"attention", "head_count">>)
      headCountKV == OrElse(g(<<"attention", "head_count_kv">>),
                            OrElse(g(<<"attention", "head_count">>), JSNumber(0))).n
      expertCount == num(<<"expert_count">>)
  IN  [architecture |-> arch,
       blockCount |-> blockCount,
       contextLength |-> num(<<"context_length">>),
       embeddingLength |-> embeddingLength,
       feedForwardLength |-> num(<<"feed_forward_length">>),
       headCount |-> headCount,
       headCountKV |-> headCountKV,
       expertCount |-> expertCount,
       expertUsedCount |-> num(<<"expert_used_count">>),
       isMoE |-> expertCount > 1,
       isGQA |-> headCountKV > 0 /\ headCountKV < headCount,
       headDim |-> IF embeddingLength # 0 /\ headCount # 0
                     THEN embeddingLength \div headCount ELSE 0]

\* the fields of the calls, with the name extractArchInfo gives them
ArchFields == [block_count |-> "blockCount", expert_count |-> "expertCount"]

\* the metadata maps of the calls: the architecture named or not, and for
\* each field the bare key and the key of the llama namespace present or not
MetaValue == {JSUndefined, JSNumber(0), JSNumber(5), JSNumber(32)}

MetadataOf(arch, bareB, nsB, bareE, nsE) ==
  LET entries ==
        (IF arch = JSUndefined THEN {} ELSE {<<<<"general", "architecture">>, arch>>})
        \cup (IF bareB = JSUndefined THEN {} ELSE {<<<<"block_count">>, bareB>>})
        \cup (IF nsB = JSUndefined THEN {} ELSE {<<<<"llama", "block_count">>, nsB>>})
        \cup (IF bareE = JSUndefined THEN {} ELSE {<<<<"expert_count">>, bareE>>})
        \cup (IF nsE = JSUndefined THEN {} ELSE {<<<<"llama", "expert_count">>, nsE>>})
  IN  [k \in {e[1] : e \in entries} |-> (CHOOSE e \in entries : e[1] = k)[2]]

ArchCalls ==
  {[pc |-> "called", metadata |-> MetadataOf(a, bb, nb, be, ne), out |-> "none"] :
     a \in {JSUndefined, JSString("llama"), JSString("qwen2")},
     bb \in MetaValue, nb \in MetaValue,
     be \in {JSUndefined, JSNumber(8)}, ne \in {JSUndefined, JSNumber(0)}}

InitArch ==
  /\ archCall \in ArchCalls
  /\ classifyCall = NoCall
  /\ layoutCall = NoCall
  /\ sampleCall = NoCall
  /\ cloudCall = NoCall
  /\ connCall = NoCall
  /\ ReaderIdle
  /\ ParseIdle
  /\ AppIdle

ExtractArchInfo ==
  /\ archCall.pc = "called"
  /\ archCall' = [archCall EXCEPT !.pc = "returned",
                                  !.out = extractArchInfo(archCall.metadata)]
  /\ UNCHANGED <<readerVars, parseVars, appVars,
                 classifyCall, layoutCall, sampleCall, cloudCall, connCall>>

NextArch == ExtractArchInfo

SpecArch == InitArch /\ [][NextArch]_vars

\* C14: each field comes from the key "<architecture>.<field>" when that
\* key is present, else from the bare key, else it is 0.
C14_NamespacedKeyFirst ==
  archCall.pc = "returned" =>
    LET md == archCall.metadata
        arch == archCall.out.architecture
    IN  \A f \in DOMAIN ArchFields :
          LET ns == Lookup(md, Namespaced(arch, <<f>>))
              bare == Lookup(md, <<f>>)
              field == archCall.out[ArchFields[f]]
          IN  /\ ns # JSUndefined => field = ns.n
              /\ (ns = JSUndefined /\ bare # JSUndefined) => field = bare.n
              /\ (ns = JSUndefined /\ bare = JSUndefined) => field = 0

\* ------------------------------------------------------------------------
\* sampleTensorWeights (gguf-parser.js)
\* ------------------------------------------------------------------------
\* largest number of samples asked of one tensor
MaxSamples == 600

MIN_POINTS_PER_TENSOR == 400

\* byteLength of file.slice(from, to): both ends are clamped to the file
SliceLen(size, from, to) == Max(0, Min(to, size) - Min(from, size))

\* The result array as the sequence of the places its entries were written
\* from: an element (or byte) index of the tensor, Untouched for an entry
\* still at its initial 0, NotANumber for an entry computed from a byte
\* beyond the buffer read.
Untouched == -1

NotANumber == -2

\* new Float32Array(sampleCount) after its first entries were written
Padded(written, sampleCount) ==
  written \o [i \in 1..(sampleCount - Len(written)) |-> Untouched]

\* The sampling position after k additions of the stride is k * num / den:
\* num / den = numElements / sampleCount for the typed samplers (the sum is
\* taken exactly), stride / 1 for the byte sampler.
\* while (nextSampleAt < end && sampleIdx < sampleCount) { ... }: the
\* iterations are those of k from the k it starts with while the position
\* is below end; an iteration writes when its index lies in the view, and
\* the loop stops behind the write that fills the array.
SampleWhile(num, den, sampleCount, start, end, viewLen, k, written) ==
  LET kEnd == Max(k, CeilDiv(end * den, num))
      localIdx(i) == ((i * num) \div den) - start
      writes(i) == localIdx(i) >= 0 /\ localIdx(i) < viewLen
      writers == SelectSeq([j \in 1..(kEnd - k) |-> k + j - 1], writes)
      room == sampleCount - Len(written)
  IN  IF room <= 0 THEN [k |-> k, written |-> written]
      ELSE IF Len(writers) >= room
        THEN [k |-> writers[room] + 1,
              written |-> written \o [j \in 1..room |-> start + localIdx(writers[j])]]
        ELSE [k |-> kEnd,
              written |-> written \o [j \in 1..Len(writers) |-> start + localIdx(writers[j])]]

\* for (start = 0; start < total && sampleIdx < sampleCount; start += CHUNK)
\* over `total` units of `unit` bytes; the typed-array view of a chunk
\* throws when the bytes read are no whole number of units
RECURSIVE SampleFor(_, _, _, _, _, _, _, _, _, _)
SampleFor(file, absOffset, total, unit, chunk, fr, sampleCount, start, w, reads) ==
  IF ~(start < total /\ Len(w.written) < sampleCount)
    THEN [ok |-> TRUE, result |-> Padded(w.written, sampleCount), reads |-> reads]
    ELSE
      LET end == Min(start + chunk, total) IN
      IF w.k * fr.num >= end * fr.den
        THEN SampleFor(file, absOffset, total, unit, chunk, fr, sampleCount,
                       start + chunk, w, reads)
        ELSE
          LET from == absOffset + start * unit
              to == absOffset + end * unit
              len == SliceLen(file.size, from, to)
          IN  IF len % unit # 0
                THEN [ok |-> FALSE, result |-> <<>>, reads |-> Append(reads, <<from, to>>)]
                ELSE SampleFor(file, absOffset, total, unit, chunk, fr, sampleCount,
                               start + chunk,
                               SampleWhile(fr.num, fr.den, sampleCount, start, end,
                                           len \div unit, w.k, w.written),
                               Append(reads, <<from, to>>))

\* sampleF32, and sampleF16 and sampleBF16 with two bytes per element
sampleF32(file, absOffset, numElements, sampleCount, bytesPerElem) ==
  SampleFor(file, absOffset, numElements, bytesPerElem, 65536,
            [num |-> numElements, den |-> sampleCount], sampleCount,
            0, [k |-> 0, written |-> <<>>], <<>>)

\* sampleGeneric: stride = Math.max(1, Math.floor(dataSize / sampleCount))
sampleGeneric(file, absOffset, dataSize, numElements, sampleCount) ==
  SampleFor(file, absOffset, dataSize, 1, 256 * 1024,
            [num |-> Max(1, dataSize \div Max(1, sampleCount)), den |-> 1],
            sampleCount, 0, [k |-> 0, written |-> <<>>], <<>>)

\* batches of maxBatch needed blocks each, however far apart they lie
RECURSIVE BlockBatches_count(_, _)
BlockBatches_count(blocks, maxBatch) ==
  IF blocks = {} THEN <<>>
  ELSE LET first == CHOOSE b \in blocks : \A c \in blocks : b <= c
           batch == {b \in blocks : Cardinality({c \in blocks : c < b}) < maxBatch}
           last == CHOOSE b \in batch : \A c \in batch : c <= b
       IN  <<[first |-> first, last |-> last]>> \o BlockBatches_count(blocks \ batch, maxBatch)

\* the batches of the sorted needed blocks: a batch takes the blocks less
\* than maxBatch past its first
RECURSIVE BlockBatches(_, _)
BlockBatches(blocks, maxBatch) ==
  IF blocks = {} THEN <<>>
  ELSE LET first == CHOOSE b \in blocks : \A c \in blocks : b <= c
           batch == {b \in blocks : b - first < maxBatch}
           last == CHOOSE b \in batch : \A c \in batch : c <= b
       IN  <<[first |-> first, last |-> last]>> \o BlockBatches(blocks \ batch, maxBatch)

\* sampleQ8_0 and sampleQ4_0: blocks of 32 elements behind a 2-byte scale;
\* quantOff(inBlock) is the byte of the element within the block's quants;
\* decoded: ghost, the read and the byte in it that each sample is taken from;
\* getUint16 throws in the first batch that lacks the scale of a block
sampleQuant(file, absOffset, numElements, sampleCount, bytesPerBlock, maxBatch, nibbles) ==
  LET elemIdx(i) == (i * numElements) \div sampleCount
      blocks == {elemIdx(i) \div 32 : i \in 0..(sampleCount - 1)}
      batches == BlockBatches(blocks, maxBatch)
      batchOf(b) == CHOOSE j \in 1..Len(batches) : batches[j].first <= b /\ b <= batches[j].last
      readOf(j) == <<absOffset + batches[j].first * bytesPerBlock,
                     absOffset + (batches[j].last + 1) * bytesPerBlock>>
      lenOf(j) == SliceLen(file.size, readOf(j)[1], readOf(j)[2])
      localOff(b) == (b - batches[batchOf(b)].first) * bytesPerBlock
      scaleRead(b) == localOff(b) + 2 <= lenOf(batchOf(b))
      quantOff(e) == IF nibbles THEN (e % 32) \div 2 ELSE e % 32
      entry(i) == LET e == elemIdx(i) b == e \div 32
                  IN  IF localOff(b) + 2 + quantOff(e) < lenOf(batchOf(b))
                        THEN e ELSE NotANumber
      failing == {j \in 1..Len(batches) : \E b \in blocks : batchOf(b) = j /\ ~scaleRead(b)}
      firstFailing == CHOOSE j \in failing : \A k \in failing : j <= k
  IN  IF failing = {}
        THEN [ok |-> TRUE, result |-> [i \in 1..sampleCount |-> entry(i - 1)],
              reads |-> [j \in 1..Len(batches) |-> readOf(j)],
              decoded |-> [i \in 1..sampleCount |->
                             LET e == elemIdx(i - 1) b == e \div 32
                             IN  [read |-> batchOf(b), at |-> localOff(b) + 2 + quantOff(e)]]]
        ELSE [ok |-> FALSE, result |-> <<>>, reads |-> [j \in 1..firstFailing |-> readOf(j)]]

\* sampleTensorWeights(file, tensorDataOffset, tensor, sampleCount); ok is
\* FALSE when the promise is rejected
sampleTensorWeights(file, tensorDataOffset, tensor, sampleCount) ==
  LET absOffset == tensorDataOffset + tensor.offset
      actualSamples == Min(sampleCount, tensor.numElements)
  IN  CASE tensor.type = GGMLType.F32 ->
             sampleF32(file, absOffset, tensor.numElements, actualSamples, 4)
        [] tensor.type \in {GGMLType.F16, GGMLType.BF16} ->
             sampleF32(file, absOffset, tensor.numElements, actualSamples, 2)
        [] tensor.type = GGMLType.Q8_0 ->
             sampleQuant(file, absOffset, tensor.numElements, actualSamples, 34, 4096, FALSE)
        [] tensor.type = GGMLType.Q4_0 ->
             sampleQuant(file, absOffset, tensor.numElements, actualSamples, 18, 8192, TRUE)
        [] OTHER ->
             sampleGeneric(file, absOffset, tensor.dataSize, tensor.numElements, actualSamples)

\* the calls: a tensor of each encoding at the start of the tensor data of
\* a whole file, of a file cut inside the tensor, and of a file that ends
\* before the tensor
SampleTypes ==
  {GGMLType.F32, GGMLType.F16, GGMLType.BF16, GGMLType.Q8_0, GGMLType.Q4_0,
   GGMLType.Q2_K, GGMLType.Q4_K_S, GGMLType.I8, 99}

SampleTensor(type, numElements) ==
  TensorInfo([name |-> "t", dims |-> <<numElements>>, type |-> type, offset |-> 0])

SampleCalls ==
  {[pc |-> "called",
    file |-> [size |-> 4096 + (SampleTensor(ty, n).dataSize * cut.num) \div cut.den + cut.odd],
    tensorDataOffset |-> 4096,
    tensor |-> SampleTensor(ty, n),
    sampleCount |-> sc,
    whole |-> cut.num = cut.den,
    out |-> "none"] :
     ty \in SampleTypes, n \in {256, 512, 4096, 3 * 65536, 9 * 65536},
     sc \in {MIN_POINTS_PER_TENSOR, MaxSamples},
     cut \in {[num |-> 1, den |-> 1, odd |-> 0], [num |-> 1, den |-> 2, odd |-> 1],
              [num |-> 0, den |-> 1, odd |-> 0]}}

InitSample ==
  /\ sampleCall \in SampleCalls
  /\ classifyCall = NoCall
  /\ archCall = NoCall
  /\ layoutCall = NoCall
  /\ cloudCall = NoCall
  /\ connCall = NoCall
  /\ ReaderIdle
  /\ ParseIdle
  /\ AppIdle

SampleTensorWeights ==
  /\ sampleCall.pc = "called"
  /\ sampleCall' =
       [sampleCall EXCEPT !.pc = "settled",
                          !.out = sampleTensorWeights(sampleCall.file, sampleCall.tensorDataOffset,
                                                      sampleCall.tensor, sampleCall.sampleCount)]
  /\ UNCHANGED <<readerVars, parseVars, appVars,
                 classifyCall, archCall, layoutCall, cloudCall, connCall>>

NextSample == SampleTensorWeights

SpecSample == InitSample /\ [][NextSample]_vars

\* C12: over a whole file, sampleTensorWeights returns min(requested,
\* numElements) values for every encoding and each of them was written from
\* the bytes of the tensor.
C12_AllSamplesWritten ==
  (sampleCall.pc = "settled" /\ sampleCall.whole) =>
    /\ sampleCall.out.ok
    /\ Len(sampleCall.out.result) = Min(sampleCall.sampleCount, sampleCall.tensor.numElements)
    /\ \A i \in 1..Len(sampleCall.out.result) : sampleCall.out.result[i] >= 0

\* ------------------------------------------------------------------------
\* computeLayout and getRegion (point-cloud.js)
\* ------------------------------------------------------------------------
\* largest block count and expert count of the architectures
MaxBlocks == 3

MaxExperts == 4

\* Lengths are fixed-point numbers in ten-thousandths of the world-space
\* unit; a product or quotient that is no whole number of them is rounded
\* down.
UNIT == 100 * 100

\* the layer spacing no larger than the last stage offset
LAYER_SPACING_tight == 16 * UNIT

LAYER_SPACING == 18 * UNIT

STAGE ==
  [ATTN_NORM |-> 0, QKV |-> (5 * UNIT) \div 2, ATTN_OUT |-> 7 * UNIT,
   FFN_NORM |-> 10 * UNIT, FFN_GATE_UP |-> (25 * UNIT) \div 2, FFN_DOWN |-> 16 * UNIT]

HEAD_WIDTH == UNIT

COMPONENT_GAP == (6 * UNIT) \div 10

EXPERT_GAP == (3 * UNIT) \div 10

TENSOR_HEIGHT_BASE == 2 * UNIT

BLOCK_DEPTH == (12 * UNIT) \div 10

\* the width of an expert column without the gap between the columns
expertWidth_noGap(ffnTotalWidth, experts) == ffnTotalWidth \div experts

\* const expertWidth = ffnTotalWidth / experts - EXPERT_GAP
expertWidth(ffnTotalWidth, experts) == ffnTotalWidth \div experts - EXPERT_GAP

\* computeLayout(archInfo, tensorAllocs): the values getRegion closes over
computeLayout(archInfo) ==
  LET layers == IF archInfo.blockCount # 0 THEN archInfo.blockCount ELSE 1
      heads == IF archInfo.headCount # 0 THEN archInfo.headCount ELSE 1
      headsKV == IF archInfo.headCountKV # 0 THEN archInfo.headCountKV ELSE heads
      ffnMult == IF archInfo.feedForwardLength # 0
                   THEN (archInfo.feedForwardLength * UNIT) \div Max(archInfo.embeddingLength, 1)
                   ELSE 4 * UNIT
      experts == IF archInfo.isMoE
                   THEN (IF archInfo.expertCount # 0 THEN archInfo.expertCount ELSE 1)
                   ELSE 1
      attnQWidth == heads * HEAD_WIDTH
      attnKWidth == headsKV * HEAD_WIDTH
      attnVWidth == headsKV * HEAD_WIDTH
      qkvTotalWidth == attnQWidth + attnKWidth + attnVWidth + COMPONENT_GAP * 2
      ffnBlockWidth == Max(2 * UNIT, ffnMult)
      ffnTotalWidth == IF archInfo.isMoE
                         THEN (experts * (ffnBlockWidth + EXPERT_GAP) * 4) \div 10
                         ELSE (ffnBlockWidth * 3) \div 2
  IN  [layers |-> layers, ffnMult |-> ffnMult, experts |-> experts, isMoE |-> archInfo.isMoE,
       attnQWidth |-> attnQWidth, attnKWidth |-> attnKWidth, attnVWidth |-> attnVWidth,
       attnOutWidth |-> (heads * HEAD_WIDTH) \div 2,
       qkvTotalWidth |-> qkvTotalWidth, ffnTotalWidth |-> ffnTotalWidth,
       embHeight |-> (TENSOR_HEIGHT_BASE * 3) \div 2, layerHeight |-> TENSOR_HEIGHT_BASE,
       globalBlockWidth |-> (Max(qkvTotalWidth, ffnTotalWidth) * 8) \div 10]

Region(x, y, z, width, height, depth) ==
  [x |-> x, y |-> y, z |-> z, width |-> width, height |-> height, depth |-> depth]

\* layout.getRegion(category, layerIdx, expertIdx, tensor); centerX is 0
getRegion(lay, category, layerIdx, expertIdx) ==
  LET layerZ == Max(0, layerIdx) * LAYER_SPACING
      half(w) == w \div 2
      qkvBaseX == 0 - half(lay.qkvTotalWidth)
      eIdx == Max(0, expertIdx)
      eWidth == expertWidth(lay.ffnTotalWidth, lay.experts)
      expertX == (0 - half(lay.ffnTotalWidth)) + eIdx * (eWidth + EXPERT_GAP)
      subWidth == half(eWidth)
      gap3 == (COMPONENT_GAP * 3) \div 10
      ffnSubWidth == lay.ffnTotalWidth \div 3 - gap3
      ffnH == (lay.layerHeight * Min(lay.ffnMult \div 4, (3 * UNIT) \div 2)) \div UNIT
      pairWidth == ffnSubWidth * 2 + gap3
      moe == lay.isMoE /\ lay.experts > 1
  IN
  IF category = "embedding" THEN
    Region(0 - half(lay.globalBlockWidth), 0, 0 - (LAYER_SPACING * 3) \div 2,
           lay.globalBlockWidth, lay.embHeight, BLOCK_DEPTH * 2)
  ELSE IF category = "output_norm" THEN
    Region(0 - half(lay.globalBlockWidth), 0, lay.layers * LAYER_SPACING + UNIT \div 2,
           lay.globalBlockWidth, (3 * UNIT) \div 10, BLOCK_DEPTH)
  ELSE IF category = "output" THEN
    Region(0 - half(lay.globalBlockWidth), 0, lay.layers * LAYER_SPACING + 2 * UNIT,
           lay.globalBlockWidth, lay.embHeight, BLOCK_DEPTH)
  ELSE IF layerIdx < 0 /\ category \in {"norm", "other"} THEN
    Region(0 - 2 * UNIT, 0, lay.layers * LAYER_SPACING + LAYER_SPACING,
           4 * UNIT, (3 * UNIT) \div 10, BLOCK_DEPTH)
  ELSE IF category = "attn_norm" THEN
    Region(0 - half(lay.qkvTotalWidth), lay.layerHeight + (2 * UNIT) \div 10,
           layerZ + STAGE.ATTN_NORM, lay.qkvTotalWidth, (15 * UNIT) \div 100, half(BLOCK_DEPTH))
  ELSE IF category = "attn_q" THEN
    Region(qkvBaseX, 0, layerZ + STAGE.QKV, lay.attnQWidth, lay.layerHeight, BLOCK_DEPTH)
  ELSE IF category = "attn_k" THEN
    Region(qkvBaseX + lay.attnQWidth + COMPONENT_GAP, 0, layerZ + STAGE.QKV,
           lay.attnKWidth, (lay.layerHeight * 7) \div 10, BLOCK_DEPTH)
  ELSE IF category = "attn_v" THEN
    Region(qkvBaseX + lay.attnQWidth + lay.attnKWidth + COMPONENT_GAP * 2, 0,
           layerZ + STAGE.QKV, lay.attnVWidth, (lay.layerHeight * 7) \div 10, BLOCK_DEPTH)
  ELSE IF category \in {"attn_out", "attn_other"} THEN
    Region(0 - half(lay.attnOutWidth), 0, layerZ + STAGE.ATTN_OUT,
           lay.attnOutWidth, lay.layerHeight, BLOCK_DEPTH)
  ELSE IF category = "ffn_norm" THEN
    Region(0 - half(lay.ffnTotalWidth), lay.layerHeight + (2 * UNIT) \div 10,
           layerZ + STAGE.FFN_NORM, lay.ffnTotalWidth, (15 * UNIT) \div 100, half(BLOCK_DEPTH))
  ELSE IF moe /\ category = "moe_gate" THEN
    Region(0 - half(lay.ffnTotalWidth), lay.layerHeight + UNIT \div 2,
           layerZ + STAGE.FFN_GATE_UP - UNIT, lay.ffnTotalWidth, (3 * UNIT) \div 10,
           half(BLOCK_DEPTH))
  ELSE IF moe /\ category = "moe_up" THEN
    Region(0 - half(lay.ffnTotalWidth), 0, layerZ + STAGE.FFN_GATE_UP,
           lay.ffnTotalWidth, lay.layerHeight, BLOCK_DEPTH)
  ELSE IF moe /\ category = "moe_down" THEN
    Region(0 - half(lay.ffnTotalWidth), 0, layerZ + STAGE.FFN_DOWN,
           lay.ffnTotalWidth, lay.layerHeight, BLOCK_DEPTH)
  ELSE IF moe /\ category = "ffn_gate" THEN
    Region(expertX, 0, layerZ + STAGE.FFN_GATE_UP, subWidth, lay.layerHeight, BLOCK_DEPTH)
  ELSE IF moe /\ category = "ffn_up" THEN
    Region(expertX + subWidth, 0, layerZ + STAGE.FFN_GATE_UP, subWidth, lay.layerHeight,
           BLOCK_DEPTH)
  ELSE IF moe /\ category = "ffn_down" THEN
    Region(expertX, 0, layerZ + STAGE.FFN_DOWN, eWidth, lay.layerHeight, BLOCK_DEPTH)
  ELSE IF category = "ffn_gate" THEN
    Region(0 - half(pairWidth), 0, layerZ + STAGE.FFN_GATE_UP, ffnSubWidth, ffnH, BLOCK_DEPTH)
  ELSE IF category = "ffn_up" THEN
    Region((0 - half(pairWidth)) + ffnSubWidth + gap3, 0, layerZ + STAGE.FFN_GATE_UP,
           ffnSubWidth, ffnH, BLOCK_DEPTH)
  ELSE IF category = "ffn_down" THEN
    Region(0 - half(ffnSubWidth), 0, layerZ + STAGE.FFN_DOWN, ffnSubWidth, ffnH, BLOCK_DEPTH)
  ELSE IF category = "ffn_other" THEN
    Region(0 - half(lay.ffnTotalWidth), 0, layerZ + STAGE.FFN_GATE_UP,
           lay.ffnTotalWidth, lay.layerHeight, BLOCK_DEPTH)
  ELSE
    Region(0 - 3 * UNIT, 0 - 3 * UNIT,
           IF layerIdx >= 0 THEN layerZ + STAGE.QKV ELSE lay.layers * LAYER_SPACING + 3 * UNIT,
           6 * UNIT, UNIT, BLOCK_DEPTH)

Categories ==
  {"embedding", "output_norm", "output", "attn_q", "attn_k", "attn_v", "attn_out",
   "attn_norm", "attn_other", "moe_gate", "ffn_gate", "moe_up", "ffn_up", "moe_down",
   "ffn_down", "ffn_norm", "ffn_other", "norm", "other"}

\* the architectures of the calls, as extractArchInfo returns them
ArchInfos ==
  {[blockCount |-> bc, headCount |-> hd.h, headCountKV |-> hd.kv,
    embeddingLength |-> ff.emb, feedForwardLength |-> ff.ffn,
    expertCount |-> ec, isMoE |-> ec > 1] :
     bc \in 0..MaxBlocks,
     hd \in {[h |-> 0, kv |-> 0], [h |-> 8, kv |-> 8], [h |-> 32, kv |-> 8]},
     ff \in {[emb |-> 0, ffn |-> 0], [emb |-> 4096, ffn |-> 11008],
             [emb |-> 4096, ffn |-> 14336], [emb |-> 4096, ffn |-> 4096]},
     ec \in {0, 1, 2, MaxExperts}}

\* the getRegion calls of one layout: every category at every layer index
\* up to the block count and for the global tensors (-1), and the experts'
\* tensors ffn_<r>.<e> for every expert index
RegionQueries(archInfo) ==
  {<<c, l, -1>> : c \in Categories, l \in (-1)..archInfo.blockCount}
  \cup {<<c, l, e>> : c \in {"ffn_gate", "ffn_up", "ffn_down"},
                      l \in 0..archInfo.blockCount,
                      e \in 0..(Max(1, archInfo.expertCount) - 1)}

InitLayout ==
  /\ layoutCall \in {[pc |-> "called", archInfo |-> a, layout |-> "none", regions |-> <<>>] :
                       a \in ArchInfos}
  /\ classifyCall = NoCall
  /\ archCall = NoCall
  /\ sampleCall = NoCall
  /\ cloudCall = NoCall
  /\ connCall = NoCall
  /\ ReaderIdle
  /\ ParseIdle
  /\ AppIdle

ComputeLayout ==
  /\ layoutCall.pc = "called"
  /\ layoutCall' = [layoutCall EXCEPT !.pc = "laid",
                                      !.layout = computeLayout(layoutCall.archInfo)]
  /\ UNCHANGED <<readerVars, parseVars, appVars,
                 classifyCall, archCall, sampleCall, cloudCall, connCall>>

GetRegions ==
  /\ layoutCall.pc = "laid"
  /\ layoutCall' =
       [layoutCall EXCEPT !.pc = "queried",
                          !.regions = [q \in RegionQueries(layoutCall.archInfo) |->
                                         getRegion(layoutCall.layout, q[1], q[2], q[3])]]
  /\ UNCHANGED <<readerVars, parseVars, appVars,
                 classifyCall, archCall, sampleCall, cloudCall, connCall>>

NextLayout == ComputeLayout \/ GetRegions

SpecLayout == InitLayout /\ [][NextLayout]_vars

\* the depth of the region of a category at a layer (and expert)
ZOf(c, l, e) == layoutCall.regions[<<c, l, e>>].z

\* the gate / up and the down categories of the layout in use, with the
\* expert indices their regions are asked for
GateUpQueries ==
  IF layoutCall.layout.isMoE /\ layoutCall.layout.experts > 1
    THEN {<<"moe_up", -1>>} \cup
         {<<c, e>> : c \in {"ffn_gate", "ffn_up"}, e \in (-1)..(layoutCall.layout.experts - 1)}
    ELSE {<<"ffn_gate", -1>>, <<"ffn_up", -1>>}

DownQueries ==
  IF layoutCall.layout.isMoE /\ layoutCall.layout.experts > 1
    THEN {<<"moe_down", -1>>} \cup
         {<<"ffn_down", e>> : e \in (-1)..(layoutCall.layout.experts - 1)}
    ELSE {<<"ffn_down", -1>>}

\* C17: along the depth axis the embedding lies before 0, the stages of a
\* layer follow in the order norm, q = k = v, attention output, ffn norm,
\* gate / up, down, a layer ends before the next begins, and the output
\* norm and the output follow the last layer, in this order.
C17_DepthOrder ==
  layoutCall.pc = "queried" =>
    LET bc == layoutCall.archInfo.blockCount IN
    /\ ZOf("embedding", -1, -1) < 0
    /\ ZOf("output_norm", -1, -1) < ZOf("output", -1, -1)
    /\ \A L \in 0..(bc - 1) :
         /\ 0 <= ZOf("attn_norm", L, -1)
         /\ ZOf("attn_norm", L, -1) < ZOf("attn_q", L, -1)
         /\ ZOf("attn_q", L, -1) = ZOf("attn_k", L, -1)
         /\ ZOf("attn_k", L, -1) = ZOf("attn_v", L, -1)
         /\ ZOf("attn_v", L, -1) < ZOf("attn_out", L, -1)
         /\ ZOf("attn_out", L, -1) < ZOf("ffn_norm", L, -1)
         /\ \A g \in GateUpQueries, d \in DownQueries :
              /\ ZOf("ffn_norm", L, -1) < ZOf(g[1], L, g[2])
              /\ ZOf(g[1], L, g[2]) < ZOf(d[1], L, d[2])
              /\ ZOf(d[1], L, d[2]) < ZOf("attn_norm", L + 1, -1)
              /\ L = bc - 1 => ZOf(d[1], L, d[2]) < ZOf("output_norm", -1, -1)

\* a mixture-of-experts layout of several layers has been queried
C17_Witness ==
  /\ layoutCall.pc = "queried"
  /\ layoutCall.archInfo.blockCount = MaxBlocks
  /\ layoutCall.layout.isMoE
  /\ ZOf("ffn_down", MaxBlocks - 1, 1) = (MaxBlocks - 1) * LAYER_SPACING + STAGE.FFN_DOWN

\* C18: at one layer of a mixture-of-experts layout the down regions of the
\* experts 0..E-1 share a depth, have positive widths and disjoint
\* x-intervals, and the x-interval of the router contains them all.
C18_ExpertColumns ==
  (layoutCall.pc = "queried" /\ layoutCall.archInfo.isMoE) =>
    LET E == layoutCall.archInfo.expertCount
        down(L, e) == layoutCall.regions[<<"ffn_down", L, e>>]
        router(L) == layoutCall.regions[<<"moe_gate", L, -1>>]
    IN  \A L \in 0..layoutCall.archInfo.blockCount :
          \A e \in 0..(E - 1) :
            /\ down(L, e).width > 0
            /\ down(L, e).z = down(L, 0).z
            /\ router(L).x <= down(L, e).x
            /\ down(L, e).x + down(L, e).width <= router(L).x + router(L).width
            /\ \A f \in 0..(E - 1) :
                 e < f => down(L, e).x + down(L, e).width <= down(L, f).x

\* a layout of MaxExperts experts whose last column starts right of the
\* others
C18_Witness ==
  /\ layoutCall.pc = "queried"
  /\ layoutCall.archInfo.expertCount = MaxExperts
  /\ layoutCall.regions[<<"ffn_down", 0, MaxExperts - 1>>].x
       > layoutCall.regions[<<"ffn_down", 0, MaxExperts - 2>>].x

\* ------------------------------------------------------------------------
\* generatePointCloud (point-cloud.js)
\* ------------------------------------------------------------------------
\* largest number of norm tensors behind the embedding of a tensor list
MaxNorms == 8

\* quotient and remainder of a * b by c, for 0 <= a, b and 0 < c < 2^30,
\* without forming the product: by the binary digits of b
RECURSIVE MulDivMod(_, _, _)
MulDivMod(a, b, c) ==
  IF b = 0 THEN [q |-> 0, r |-> 0]
  ELSE LET h == MulDivMod(a, b \div 2, c)
           q2 == 2 * h.q + ((2 * h.r) \div c)
           r2 == (2 * h.r) % c
           r3 == IF b % 2 = 1 THEN r2 + (a % c) ELSE r2
           q3 == IF b % 2 = 1 THEN q2 + (a \div c) ELSE q2
       IN  [q |-> q3 + (r3 \div c), r |-> r3 % c]

\* reduce((s, n) => s + n, 0)
RECURSIVE Sum(_)
Sum(s) == IF s = <<>> THEN 0 ELSE Head(s) + Sum(Tail(s))

\* Math.floor(t.numElements / decimationRatio) with decimationRatio =
\* totalParams / targetPointCount; the quotient is taken exactly
rawCount(numElements, totalParams, targetPointCount) ==
  Max(MIN_POINTS_PER_TENSOR, MulDivMod(numElements, targetPointCount, totalParams).q)

\* the rescale pass without the floor
rescale_noFloor(pointCount, targetPointCount, allocTotal) ==
  LET d == MulDivMod(pointCount, targetPointCount, allocTotal)
  IN  d.q + (IF 2 * d.r >= allocTotal THEN 1 ELSE 0)

\* Math.max(MIN_POINTS_PER_TENSOR, Math.round(a.pointCount * scale)) with
\* scale = targetPointCount / allocTotal; Math.round rounds a half up
rescale(pointCount, targetPointCount, allocTotal) ==
  LET d == MulDivMod(pointCount, targetPointCount, allocTotal)
  IN  Max(MIN_POINTS_PER_TENSOR, d.q + (IF 2 * d.r >= allocTotal THEN 1 ELSE 0))

\* tensorAllocs after the rescale pass
tensorAllocs(tensors, targetPointCount) ==
  LET totalParams == Sum([i \in DOMAIN tensors |-> tensors[i].numElements])
      raw == [i \in DOMAIN tensors |->
                rawCount(tensors[i].numElements, totalParams, targetPointCount)]
      allocTotal == Sum(raw)
  IN  [i \in DOMAIN tensors |->
         [tensor |-> tensors[i], cls |-> classifyTensor(tensors[i].name),
          pointCount |-> IF allocTotal > 0
                           THEN rescale(raw[i], targetPointCount, allocTotal)
                           ELSE raw[i]]]

\* null, as an entry of allWeights
Null == [ok |-> FALSE, result |-> <<>>, reads |-> <<>>]

\* the results of a batch when one rejected read voids the whole batch
batchResults_allOrNone(outs) ==
  IF \A j \in DOMAIN outs : outs[j].ok THEN outs ELSE [j \in DOMAIN outs |-> Null]

\* await Promise.all(promises): each promise is
\* sampleTensorWeights(...).catch(() => null)
batchResults(outs) == [j \in DOMAIN outs |-> IF outs[j].ok THEN outs[j] ELSE Null]

\* twice as many tensors read in parallel
BATCH_wide == 2 * 8

\* const BATCH = 8
BATCH == 8

\* phase 1 for every colour mode
samplesWeights_always(mode) == TRUE

\* if (colorMode === 'weight'): phase 1 is entered
samplesWeights(mode) == mode = "weight"

\* a promise of the batch that has not settled
Pending == [pc |-> "pending"]

\* for (let j = 0; j < batchResults.length; j++) allWeights[bi + j] =
\* batchResults[j], with outs the outcomes of the promises in the order the
\* promises were pushed (bi counts from 0)
sampleBatch(outs, allWeights, bi) ==
  [ti \in DOMAIN allWeights |->
     IF bi < ti /\ ti <= bi + Len(outs) THEN batchResults(outs)[ti - bi] ELSE allWeights[ti]]

\* phase 2 for one tensor: the points pi of its range by the branch that
\* colours them. weightValues is the entry of allWeights; the points below
\* its length take the value colour, the others the colour of the mode
\* ('layer') or of the tensor's role (every other mode).
colourCounts(mode, weightValues, pointCount) ==
  LET byWeight == IF mode = "weight" /\ weightValues # Null
                    THEN Min(pointCount, Len(weightValues.result)) ELSE 0
  IN  [weight |-> byWeight,
       layer |-> IF mode = "layer" THEN pointCount - byWeight ELSE 0,
       tensor |-> IF mode # "layer" THEN pointCount - byWeight ELSE 0]

\* phase 2: the region table; startIdx and endIdx from the running globalIdx
RECURSIVE tensorRegions(_, _, _, _, _, _)
tensorRegions(lay, mode, allocs, allWeights, ti, globalIdx) ==
  IF ti > Len(allocs) THEN <<>>
  ELSE LET a == allocs[ti] IN
       <<[name |-> a.tensor.name, category |-> a.cls.category, layerIdx |-> a.cls.layerIdx,
          expertIdx |-> a.cls.expertIdx,
          region |-> getRegion(lay, a.cls.category, a.cls.layerIdx, a.cls.expertIdx),
          startIdx |-> globalIdx, endIdx |-> globalIdx + a.pointCount,
          sampled |-> allWeights[ti] # Null,
          colours |-> colourCounts(mode, allWeights[ti], a.pointCount)]>>
       \o tensorRegions(lay, mode, allocs, allWeights, ti + 1, globalIdx + a.pointCount)

\* Math.floor(pi * (tensor.numElements / pointCount)), the quotient taken
\* exactly
paramIdx(pi, numElements, pointCount) == (pi * numElements) \div pointCount

\* phase 2, the point pi of a tensor before the jitter: its row and column
\* and their normalised values rowT and colT as fractions num / den
placement(tensor, pointCount, pi) ==
  LET rows == IF Len(tensor.dims) >= 2 THEN tensor.dims[2] ELSE 1
      cols == IF tensor.dims = <<>> \/ tensor.dims[1] = 0 THEN 1 ELSE tensor.dims[1]
      idx == paramIdx(pi, tensor.numElements, pointCount)
      row == IF rows > 1 THEN idx \div cols ELSE 0
      col == idx % cols
  IN  [paramIdx |-> idx, row |-> row, col |-> col,
       rowT |-> IF rows > 1 THEN [num |-> row, den |-> rows - 1] ELSE [num |-> 1, den |-> 2],
       colT |-> IF cols > 1 THEN [num |-> col, den |-> cols - 1] ELSE [num |-> 1, den |-> 2]]

\* the outcomes of the Math.random() calls of one run, two of them told
\* apart: the jitter of the positions and the brightness variation of the
\* role colours are functions of it
RandomStreams == {0, 1}

\* generatePointCloud up to the first await: the allocation and the layout.
\*   tasks : the promises of the batch awaited, Pending or their outcome
\*   calls : ghost, the tensors sampleTensorWeights was called with, in order
\*   reads : ghost, the range reads issued, each with the tensor it is for
generatePointCloud(in, run, prev) ==
  [pc |-> "called", in |-> in, run |-> run, prev |-> prev,
   allocs |-> <<>>, actualTotal |-> 0, layout |-> "none",
   allWeights |-> <<>>, bi |-> 0, tasks |-> <<>>, calls |-> <<>>, reads |-> {},
   out |-> "none"]

\* the return value: the buffers by their lengths and the random stream
\* they were drawn with, the region table, actualPointCount
cloudResult(c, rnd) ==
  LET regions == tensorRegions(c.layout, c.in.mode, c.allocs, c.allWeights, 1, 0)
      globalIdx == IF regions = <<>> THEN 0 ELSE regions[Len(regions)].endIdx
  IN  [positions |-> [length |-> c.actualTotal * 3, jitter |-> rnd],
       colors |-> [length |-> c.actualTotal * 3,
                   variation |-> IF \E i \in DOMAIN regions : regions[i].colours.tensor > 0
                                   THEN rnd ELSE 0],
       tensorRegions |-> regions,
       actualPointCount |-> globalIdx]

\* ---- the calls ----
CloudArch ==
  [blockCount |-> 2, headCount |-> 8, headCountKV |-> 8, embeddingLength |-> 4096,
   feedForwardLength |-> 11008, expertCount |-> 0, isMoE |-> FALSE]

CloudCatalogue ==
  <<[name |-> Chars("token_embd.weight"), dims |-> <<64, 32>>, type |-> GGMLType.F32],
    [name |-> BlkName(0, "attn_norm"), dims |-> <<64>>, type |-> GGMLType.F32],
    [name |-> BlkName(0, "attn_q"), dims |-> <<64, 64>>, type |-> GGMLType.Q8_0],
    [name |-> BlkName(1, "ffn_down"), dims |-> <<256, 4>>, type |-> GGMLType.Q4_K_S],
    [name |-> Chars("rope_freqs.weight"), dims |-> <<32>>, type |-> GGMLType.F32],
    [name |-> BlkName(0, "ffn_gate_exps"), dims |-> <<16, 8, 4>>, type |-> GGMLType.F16]>>

\* a model of an embedding and k norm tensors
NormModel(embd, k) ==
  <<embd>> \o [i \in 1..k |-> [name |-> BlkName(i - 1, "attn_norm"), dims |-> <<embd.dims[1]>>,
                               type |-> GGMLType.F32]]

\* the tensors of a file: the data of the tensors one behind the other from
\* tensorDataOffset on, each at a multiple of ALIGNMENT; a tensor of
\* `corrupt` has an offset that leaves one byte before the end of the file
RECURSIVE DataOffsets(_, _)
DataOffsets(ts, at) ==
  IF ts = <<>> THEN <<>>
  ELSE <<at>> \o DataOffsets(Tail(ts),
                             AlignUp(at + TensorInfo([Head(ts) EXCEPT !.offset = at]).dataSize))

CloudFile(descrs, corrupt, target, mode) ==
  LET blank == [i \in DOMAIN descrs |->
                  [name |-> descrs[i].name, dims |-> descrs[i].dims, type |-> descrs[i].type,
                   offset |-> 0]]
      offs == DataOffsets(blank, 0)
      dataLen == IF blank = <<>> THEN 0
                 ELSE offs[Len(offs)] + TensorInfo(blank[Len(blank)]).dataSize
  IN  [file |-> [size |-> 4096 + dataLen],
       tensorDataOffset |-> 4096,
       archInfo |-> CloudArch,
       tensors |-> [i \in DOMAIN blank |->
                      TensorInfo([blank[i] EXCEPT
                                    !.offset = IF i \in corrupt THEN dataLen - 1 ELSE offs[i]])],
       corrupt |-> corrupt,
       target |-> target,
       mode |-> mode]

\* two positions of the point slider
SliderTargets == {500000, 1000000}

CloudInputs ==
  \* one or two tensors of the catalogue, any of them corrupt, every mode
  {CloudFile(ts, cs, 2000, m) :
     ts \in {<<CloudCatalogue[i]>> : i \in DOMAIN CloudCatalogue}
            \cup {<<CloudCatalogue[p[1]], CloudCatalogue[p[2]]>> :
                    p \in {q \in (DOMAIN CloudCatalogue) \X (DOMAIN CloudCatalogue) : q[1] # q[2]}},
     cs \in SUBSET {1, 2}, m \in ColorModes}
  \* a small model of more tensors than one batch, sampled
  \cup {CloudFile(NormModel(CloudCatalogue[1], MaxNorms), cs, 4000, "weight") :
          cs \in {{}, {1}, {2, MaxNorms + 1}}}
  \* a model of a large embedding and some norm tensors at the point counts
  \* of the slider, coloured without sampling
  \cup {CloudFile(NormModel([name |-> Chars("token_embd.weight"), dims |-> <<4096, 32000>>,
                             type |-> GGMLType.Q8_0], k), {}, t, m) :
          k \in 0..MaxNorms, t \in SliderTargets, m \in {"tensor", "layer"}}

InitCloud ==
  /\ cloudCall \in {generatePointCloud(in, 1, "none") :
                      in \in {c \in CloudInputs : c.corrupt \subseteq DOMAIN c.tensors}}
  /\ classifyCall = NoCall
  /\ archCall = NoCall
  /\ layoutCall = NoCall
  /\ sampleCall = NoCall
  /\ connCall = NoCall
  /\ ReaderIdle
  /\ ParseIdle
  /\ AppIdle

CloudFrame ==
  UNCHANGED <<readerVars, parseVars, appVars, classifyCall, archCall, layoutCall, sampleCall,
              connCall>>

\* the allocation, the buffers, the layout; then phase 1 in weight mode
Allocate ==
  LET allocs == tensorAllocs(cloudCall.in.tensors, cloudCall.in.target) IN
  /\ cloudCall.pc = "called"
  /\ cloudCall' =
       [cloudCall EXCEPT
          !.allocs = allocs,
          !.actualTotal = Sum([i \in DOMAIN allocs |-> allocs[i].pointCount]),
          !.layout = computeLayout(cloudCall.in.archInfo),
          !.allWeights = [i \in DOMAIN allocs |-> Null],
          !.pc = IF samplesWeights(cloudCall.in.mode) /\ allocs # <<>>
                   THEN "sampling" ELSE "placing"]
  /\ CloudFrame

\* one iteration of the batch loop up to its await: the promises of the
\* tensors bi .. min(bi + BATCH, totalTensors) - 1 are created
StartBatch ==
  LET end == Min(cloudCall.bi + BATCH, Len(cloudCall.allocs)) IN
  /\ cloudCall.pc = "sampling"
  /\ cloudCall' =
       [cloudCall EXCEPT
          !.tasks = [j \in 1..(end - cloudCall.bi) |-> Pending],
          !.calls = @ \o [j \in 1..(end - cloudCall.bi) |-> cloudCall.bi + j],
          !.pc = "awaiting"]
  /\ CloudFrame

\* one sampleTensorWeights promise of the batch settles, in any order
Settle(j) ==
  LET ti == cloudCall.bi + j
      outcome == sampleTensorWeights(cloudCall.in.file, cloudCall.in.tensorDataOffset,
                                     cloudCall.allocs[ti].tensor,
                                     cloudCall.allocs[ti].pointCount)
  IN  /\ cloudCall.pc = "awaiting"
      /\ cloudCall.tasks[j] = Pending
      /\ cloudCall' =
           [cloudCall EXCEPT
              !.tasks[j] = outcome,
              !.reads = @ \cup {<<ti, outcome.reads[k]>> : k \in DOMAIN outcome.reads}]
      /\ CloudFrame

\* Promise.all resolves when every promise has settled: the results are
\* stored and the loop goes on
StoreBatch ==
  /\ cloudCall.pc = "awaiting"
  /\ \A j \in DOMAIN cloudCall.tasks : cloudCall.tasks[j] # Pending
  /\ cloudCall' =
       [cloudCall EXCEPT
          !.allWeights = sampleBatch(cloudCall.tasks, cloudCall.allWeights, cloudCall.bi),
          !.tasks = <<>>,
          !.bi = cloudCall.bi + BATCH,
          !.pc = IF cloudCall.bi + BATCH < Len(cloudCall.allocs)
                   THEN "sampling" ELSE "placing"]
  /\ CloudFrame

\* phase 2 and the return
Place(rnd) ==
  /\ cloudCall.pc = "placing"
  /\ cloudCall' = [cloudCall EXCEPT !.pc = "returned", !.out = cloudResult(cloudCall, rnd)]
  /\ CloudFrame

\* the same call once more
Again ==
  /\ cloudCall.pc = "returned"
  /\ cloudCall.run = 1
  /\ cloudCall' = generatePointCloud(cloudCall.in, 2, cloudCall.out)
  /\ CloudFrame

NextCloud ==
  \/ Allocate
  \/ StartBatch
  \/ \E j \in DOMAIN cloudCall.tasks : Settle(j)
  \/ StoreBatch
  \/ \E rnd \in RandomStreams : Place(rnd)
  \/ Again

SpecCloud == InitCloud /\ [][NextCloud]_vars

\* what sampleTensorWeights gives for the tensor ti of the call
OwnSample(ti) ==
  sampleTensorWeights(cloudCall.in.file, cloudCall.in.tensorDataOffset,
                      cloudCall.allocs[ti].tensor, cloudCall.allocs[ti].pointCount)

\* C11: in weight mode the call returns whatever reads fail; a tensor whose
\* read failed has all its points placed and coloured by its role, and every
\* other tensor keeps the samples of its own read and is coloured from them.
C11_SamplingFailureLocal ==
  (cloudCall.pc = "returned" /\ cloudCall.in.mode = "weight") =>
    \A ti \in DOMAIN cloudCall.allocs :
      LET r == cloudCall.out.tensorRegions[ti]
          n == cloudCall.allocs[ti].pointCount
      IN  /\ r.endIdx - r.startIdx = n
          /\ ~OwnSample(ti).ok =>
               r.colours = [weight |-> 0, layer |-> 0, tensor |-> n]
          /\ OwnSample(ti).ok =>
               /\ cloudCall.allWeights[ti] = OwnSample(ti)
               /\ r.colours.weight = Min(n, Len(OwnSample(ti).result))
               /\ r.colours.weight > 0

\* a returned call with a tensor whose read failed and, in the same batch,
\* one that was sampled
C11_Witness ==
  /\ cloudCall.pc = "returned"
  /\ cloudCall.in.mode = "weight"
  /\ \E ti, tj \in DOMAIN cloudCall.allocs :
       /\ ti \in cloudCall.in.corrupt
       /\ cloudCall.allWeights[ti] = Null
       /\ cloudCall.allWeights[tj] # Null
       /\ cloudCall.out.tensorRegions[tj].colours.weight > 0

C16_AllocationSumNearTarget ==
  (cloudCall.pc # "called" /\ cloudCall.in.target \in SliderTargets) =>
    /\ cloudCall.actualTotal - cloudCall.in.target <= Len(cloudCall.in.tensors)
    /\ cloudCall.in.target - cloudCall.actualTotal <= Len(cloudCall.in.tensors)

\* C19: every point of a generation is coloured by its mode; in weight mode
\* only the points of a tensor whose sampling failed are coloured otherwise.
C19_OneColourMode ==
  cloudCall.pc = "returned" =>
    \A i \in DOMAIN cloudCall.out.tensorRegions :
      LET r == cloudCall.out.tensorRegions[i]
          n == r.endIdx - r.startIdx
      IN  /\ cloudCall.in.mode = "tensor" => r.colours.tensor = n
          /\ cloudCall.in.mode = "layer" => r.colours.layer = n
          /\ (cloudCall.in.mode = "weight" /\ r.sampled) => r.colours.weight = n

\* C20: a second run over the same inputs returns the buffers of the first.
C20_RunsAgree ==
  (cloudCall.pc = "returned" /\ cloudCall.run = 2) =>
    /\ cloudCall.out.positions = cloudCall.prev.positions
    /\ cloudCall.out.colors = cloudCall.prev.colors


\* C21: in the tensor and layer colour modes generatePointCloud never calls
\* sampleTensorWeights and issues no range read of the file.
C21_NoReadsOutsideWeightMode ==
  cloudCall.in.mode \in {"tensor", "layer"} =>
    /\ cloudCall.calls = <<>>
    /\ cloudCall.reads = {}
    /\ cloudCall.pc \notin {"sampling", "awaiting"}

\* a cloud of two tensors returned in one of these modes
C21_Witness ==
  /\ cloudCall.pc = "returned"
  /\ cloudCall.in.mode \in {"tensor", "layer"}
  /\ Len(cloudCall.out.tensorRegions) = 2
  /\ cloudCall.out.actualPointCount > 0

\* the promises of the batch that have not settled
Outstanding == {j \in DOMAIN cloudCall.tasks : cloudCall.tasks[j] = Pending}

\* C26: at most 8 sampling tasks are outstanding at any time, a group is
\* started only when no task of the previous group is outstanding, and the
\* result of a task is stored at the index of its own tensor, in whatever
\* order the tasks settle.
C26_FanOutOfEight ==
  /\ [](Cardinality(Outstanding) <= 8)
  /\ [][cloudCall'.calls # cloudCall.calls =>
          /\ Outstanding = {}
          /\ Len(cloudCall'.calls) - Len(cloudCall.calls) <= 8]_vars
  /\ [](cloudCall.pc \in {"placing", "returned"} =>
          \A ti \in DOMAIN cloudCall.allocs :
            cloudCall.in.mode = "weight" =>
              cloudCall.allWeights[ti] = batchResults(<<OwnSample(ti)>>)[1])

\* the last task of a full group has settled before the first, and a
\* second group is still to come
C26_Witness ==
  /\ cloudCall.pc = "awaiting"
  /\ Len(cloudCall.tasks) = 8
  /\ Len(cloudCall.allocs) > 8
  /\ cloudCall.tasks[8] # Pending
  /\ cloudCall.tasks[1] = Pending


\* C22: the file a generation is started with is the file whose header
\* produced the parsed data it is started with.
C22_GenerationOfOneFile ==
  \A g \in gens : g.file = g.parsed


\* C30: the generation guard is released: whenever isGenerating is true it
\* becomes false again, whether the generation succeeds or throws.
C30_GuardReleased == isGenerating ~> ~isGenerating

\* the guard is free again after a generation that threw, with a parsed
\* file to regenerate from
C30_Witness ==
  /\ ~isGenerating
  /\ genFailed
  /\ genSeq >= 1
  /\ parsedData # "null"


\* the encodings sampleTensorWeights decodes element by element
DirectTypes == {GGMLType.F32, GGMLType.F16, GGMLType.BF16, GGMLType.Q8_0, GGMLType.Q4_0}

\* C23: the normalised row and column of every point of every tensor, of
\* one, two or more dimensions, lie within [0, 1].
C23_PointsInsideRegion ==
  (cloudCall.pc = "returned" /\ cloudCall.in.target \notin SliderTargets) =>
    \A ti \in DOMAIN cloudCall.allocs :
      \A pi \in 0..(cloudCall.allocs[ti].pointCount - 1) :
        LET pl == placement(cloudCall.allocs[ti].tensor, cloudCall.allocs[ti].pointCount, pi)
        IN  /\ 0 <= pl.rowT.num /\ pl.rowT.num <= pl.rowT.den
            /\ 0 <= pl.colT.num /\ pl.colT.num <= pl.colT.den

\* C24: in weight mode the sample that colours point pi of a directly
\* decoded tensor comes from the element that places point pi.
C24_ColourOfPlacedElement ==
  (cloudCall.pc = "returned" /\ cloudCall.in.mode = "weight") =>
    \A ti \in DOMAIN cloudCall.allocs :
      LET a == cloudCall.allocs[ti]
          weightValues == cloudCall.allWeights[ti]
      IN  (a.tensor.type \in DirectTypes /\ weightValues # Null) =>
            \A pi \in 0..(Min(a.pointCount, Len(weightValues.result)) - 1) :
              weightValues.result[pi + 1] = placement(a.tensor, a.pointCount, pi).paramIdx


\* C25: the reads of sampleQ8_0 and sampleQ4_0 follow one another over
\* ascending block ranges that do not overlap, none spans more blocks than
\* the cap (4096, 8192), every block with a sampled element lies in exactly
\* one read, and each sample is decoded from the bytes of its own block.
C25_BoundedBlockBatches ==
  (/\ sampleCall.pc = "settled"
   /\ sampleCall.tensor.type \in {GGMLType.Q8_0, GGMLType.Q4_0}
   /\ sampleCall.out.ok) =>
    LET q8 == sampleCall.tensor.type = GGMLType.Q8_0
        bytesPerBlock == IF q8 THEN 34 ELSE 18
        cap == IF q8 THEN 4096 ELSE 8192
        absOffset == sampleCall.tensorDataOffset + sampleCall.tensor.offset
        n == sampleCall.tensor.numElements
        count == Min(sampleCall.sampleCount, n)
        reads == sampleCall.out.reads
        blockAt(b) == absOffset + b * bytesPerBlock
        covers(j, b) == reads[j][1] <= blockAt(b) /\ blockAt(b + 1) <= reads[j][2]
    IN  /\ \A j \in DOMAIN reads :
             /\ reads[j][1] < reads[j][2]
             /\ reads[j][2] - reads[j][1] <= cap * bytesPerBlock
             /\ (reads[j][1] - absOffset) % bytesPerBlock = 0
             /\ j > 1 => reads[j - 1][2] <= reads[j][1]
        /\ \A i \in 1..count :
             LET b == (((i - 1) * n) \div count) \div 32
                 d == sampleCall.out.decoded[i]
             IN  /\ Cardinality({j \in DOMAIN reads : covers(j, b)}) = 1
                 /\ covers(d.read, b)
                 /\ d.at >= (b * bytesPerBlock - (reads[d.read][1] - absOffset)) + 2
                 /\ d.at < (b + 1) * bytesPerBlock - (reads[d.read][1] - absOffset)

\* a Q4_0 tensor of more blocks than the cap sampled with several reads
C25_Witness ==
  /\ sampleCall.pc = "settled"
  /\ sampleCall.tensor.type = GGMLType.Q4_0
  /\ sampleCall.out.ok
  /\ Len(sampleCall.out.reads) >= 2


\* ------------------------------------------------------------------------
\* generateConnections (point-cloud.js)
\* ------------------------------------------------------------------------
MaxConnLayers == 2

\* the density multipliers of the calls, in tenths (0.1, 1.0, 2.3, 3.0)
Densities == {1, 10, 23, 30}

INTRA_LAYER_RULES ==
  <<[from |-> {"attn_norm"}, to |-> {"attn_q", "attn_k", "attn_v"}, matchExpert |-> FALSE],
    [from |-> {"attn_q"}, to |-> {"attn_out"}, matchExpert |-> FALSE],
    [from |-> {"attn_k"}, to |-> {"attn_out"}, matchExpert |-> FALSE],
    [from |-> {"attn_v"}, to |-> {"attn_out"}, matchExpert |-> FALSE],
    [from |-> {"attn_out"}, to |-> {"ffn_norm"}, matchExpert |-> FALSE],
    [from |-> {"ffn_norm"}, to |-> {"ffn_gate", "ffn_up", "moe_gate"}, matchExpert |-> FALSE],
    [from |-> {"moe_gate"}, to |-> {"ffn_gate", "ffn_up", "moe_up"}, matchExpert |-> FALSE],
    [from |-> {"ffn_gate"}, to |-> {"ffn_down"}, matchExpert |-> TRUE],
    [from |-> {"ffn_up"}, to |-> {"ffn_down"}, matchExpert |-> TRUE],
    [from |-> {"moe_up"}, to |-> {"moe_down"}, matchExpert |-> FALSE]>>

\* Math.floor(Math.sqrt(n))
floorSqrt(n) == CHOOSE r \in 0..n : r * r <= n /\ n < (r + 1) * (r + 1)

\* _sampleLines: the number of segments pushed for a pair of regions; the
\* density is in thousandths (density, density * 0.4, density * 0.5) and
\* Math.round rounds a half up
_sampleLines(srcRegion, tgtRegion, density) ==
  LET srcCount == srcRegion.endIdx - srcRegion.startIdx
      tgtCount == tgtRegion.endIdx - tgtRegion.startIdx
      baseLine == Min(100, Max(8, floorSqrt(Min(srcCount, tgtCount))))
  IN  IF srcCount = 0 \/ tgtCount = 0 THEN 0
      ELSE Max(2, (2 * baseLine * density + 1000) \div (2 * 1000))

RECURSIVE Flatten(_)
Flatten(ss) == IF ss = <<>> THEN <<>> ELSE Head(ss) \o Flatten(Tail(ss))

\* Array.from(set).sort((a, b) => a - b)
RECURSIVE Sorted(_)
Sorted(S) ==
  IF S = {} THEN <<>>
  ELSE LET least == CHOOSE x \in S : \A y \in S : x <= y
       IN  <<least>> \o Sorted(S \ {least})

\* every target of the rule, whatever its expert
validTargets_all(rule, src, targets, tensorRegions0) == targets

\* the targets of a source under a rule: with matchExpert those of the
\* same expert, or both of no expert
validTargets(rule, src, targets, tensorRegions0) ==
  LET same(tgt) ==
        \/ tensorRegions0[src].expertIdx = tensorRegions0[tgt].expertIdx
        \/ (tensorRegions0[src].expertIdx < 0 /\ tensorRegions0[tgt].expertIdx < 0)
  IN  IF rule.matchExpert THEN SelectSeq(targets, same) ELSE targets

\* generateConnections(tensorRegions, positions, density): the calls of
\* _sampleLines in order, each with the indices of its two regions and the
\* number of segments it pushed; density in tenths
generateConnections(tensorRegions0, density) ==
  LET all == [i \in DOMAIN tensorRegions0 |-> i]
      cat(i) == tensorRegions0[i].category
      among(idxs, cats) == LET in(i) == cat(i) \in cats IN SelectSeq(idxs, in)
      layerMap(l) == LET at(i) == tensorRegions0[i].layerIdx = l IN SelectSeq(all, at)
      globals == LET glob(i) == tensorRegions0[i].layerIdx < 0 IN SelectSeq(all, glob)
      layers == Sorted({tensorRegions0[i].layerIdx :
                          i \in {j \in DOMAIN tensorRegions0 : tensorRegions0[j].layerIdx >= 0}})
      pairs(kind, srcs, tgtsOf(_), dens) ==
        Flatten([s \in DOMAIN srcs |->
                   [t \in DOMAIN tgtsOf(srcs[s]) |->
                      [kind |-> kind, from |-> srcs[s], to |-> tgtsOf(srcs[s])[t],
                       lines |-> _sampleLines(tensorRegions0[srcs[s]],
                                              tensorRegions0[tgtsOf(srcs[s])[t]], dens)]]])
      intraRule(l, rule) ==
        LET targets == among(layerMap(l), rule.to)
            valid(src) == validTargets(rule, src, targets, tensorRegions0)
        IN  pairs("intra", among(layerMap(l), rule.from), valid, density * 100)
      intra == Flatten([k \in DOMAIN layers |->
                          Flatten([r \in DOMAIN INTRA_LAYER_RULES |->
                                     intraRule(layers[k], INTRA_LAYER_RULES[r])])])
      entry(l) ==
        IF among(layerMap(l), {"attn_norm"}) # <<>>
          THEN among(layerMap(l), {"attn_norm"})
          ELSE among(layerMap(l), {"attn_q", "attn_k", "attn_v"})
      downs(l) == among(layerMap(l), {"ffn_down", "moe_down"})
      cross == Flatten([k \in 1..(Len(layers) - 1) |->
                          LET nextTargets(src) == entry(layers[k + 1])
                          IN  pairs("cross", downs(layers[k]), nextTargets, density * 40)])
      firstTargets(src) == entry(layers[1])
      outputNorms == among(globals, {"output_norm"})
      outputs == among(globals, {"output"})
      endTargets(src) == IF outputNorms # <<>> THEN outputNorms ELSE outputs
      toOutputs(src) == outputs
      ends == IF layers = <<>> THEN <<>>
              ELSE pairs("embedding", among(globals, {"embedding"}), firstTargets, density * 50)
                   \o pairs("last", downs(layers[Len(layers)]), endTargets, density * 50)
                   \o pairs("output", outputNorms, toOutputs, density * 50)
      calls == intra \o cross \o ends
  IN  [calls |-> calls,
       lineCount |-> Sum([i \in DOMAIN calls |-> calls[i].lines])]


\* ---- the calls: the region tables generatePointCloud returns for a dense
\* model and for a model with per-expert and shared feed-forward tensors,
\* whole or with one tensor missing
DenseLayer(N) ==
  <<[name |-> BlkName(N, "attn_norm"), dims |-> <<64>>],
    [name |-> BlkName(N, "attn_q"), dims |-> <<64, 64>>],
    [name |-> BlkName(N, "attn_k"), dims |-> <<64, 16>>],
    [name |-> BlkName(N, "attn_v"), dims |-> <<64, 16>>],
    [name |-> BlkName(N, "attn_output"), dims |-> <<64, 64>>],
    [name |-> BlkName(N, "ffn_norm"), dims |-> <<64>>],
    [name |-> BlkName(N, "ffn_gate"), dims |-> <<64, 172>>],
    [name |-> BlkName(N, "ffn_up"), dims |-> <<64, 172>>],
    [name |-> BlkName(N, "ffn_down"), dims |-> <<172, 64>>]>>

ExpertLayer(N) ==
  <<[name |-> BlkName(N, "attn_norm"), dims |-> <<64>>],
    [name |-> BlkName(N, "attn_q"), dims |-> <<64, 64>>],
    [name |-> BlkName(N, "ffn_norm"), dims |-> <<64>>],
    [name |-> BlkName(N, "ffn_gate_inp"), dims |-> <<64, 2>>],
    [name |-> BlkName(N, "ffn_gate_shexp"), dims |-> <<64, 96>>],
    [name |-> BlkName(N, "ffn_down"), dims |-> <<96, 64>>]>>
  \o Flatten([e \in 1..2 |->
       <<[name |-> ExpertName(N, "ffn_gate", e - 1), dims |-> <<64, 172>>],
         [name |-> ExpertName(N, "ffn_up", e - 1), dims |-> <<64, 172>>],
         [name |-> ExpertName(N, "ffn_down", e - 1), dims |-> <<172, 64>>]>>])

ConnModel(layer(_)) ==
  <<[name |-> Chars("token_embd.weight"), dims |-> <<64, 128>>]>>
  \o Flatten([N \in 1..MaxConnLayers |-> layer(N - 1)])
  \o <<[name |-> Chars("output_norm.weight"), dims |-> <<64>>],
       [name |-> Chars("output.weight"), dims |-> <<64, 128>>]>>

Without(s, k) == [i \in 1..(Len(s) - 1) |-> IF i < k THEN s[i] ELSE s[i + 1]]

\* the region table of a tensor list at a point count, as phase 2 builds it
RegionTable(descrs, archInfo, target) ==
  LET tensors == [i \in DOMAIN descrs |->
                    TensorInfo([name |-> descrs[i].name, dims |-> descrs[i].dims,
                                type |-> GGMLType.F16, offset |-> 0])]
      allocs == tensorAllocs(tensors, target)
  IN  tensorRegions(computeLayout(archInfo), "tensor", allocs,
                    [i \in DOMAIN allocs |-> Null], 1, 0)

ConnCalls ==
  {[pc |-> "called",
    tensorRegions |-> RegionTable(IF k = 0 THEN m.descrs ELSE Without(m.descrs, k),
                                  m.archInfo, 40000),
    density |-> d, out |-> "none"] :
     m \in {[descrs |-> ConnModel(DenseLayer), archInfo |-> CloudArch],
            [descrs |-> ConnModel(ExpertLayer),
             archInfo |-> [CloudArch EXCEPT !.expertCount = 2, !.isMoE = TRUE]]},
     k \in 0..(MaxConnLayers * 9 + 3), d \in Densities}

InitConn ==
  /\ connCall \in ConnCalls
  /\ classifyCall = NoCall
  /\ archCall = NoCall
  /\ layoutCall = NoCall
  /\ sampleCall = NoCall
  /\ cloudCall = NoCall
  /\ ReaderIdle
  /\ ParseIdle
  /\ AppIdle

GenerateConnections ==
  /\ connCall.pc = "called"
  /\ connCall' = [connCall EXCEPT
                    !.pc = "returned",
                    !.out = generateConnections(connCall.tensorRegions, connCall.density)]
  /\ UNCHANGED <<readerVars, parseVars, appVars,
                 classifyCall, archCall, layoutCall, sampleCall, cloudCall>>

NextConn == GenerateConnections

SpecConn == InitConn /\ [][NextConn]_vars

\* round(clamp(sqrt(m), 8, 100) * d) for d in tenths, taken exactly: the k
\* with k - 1/2 <= sqrt(M) * d / 10 < k + 1/2, M = m clamped to [64, 10000]
ClaimedLines(m, d) ==
  LET M == Min(100 * 100, Max(64, m))
  IN  CHOOSE k \in 0..(3 * 100 + 1) :
        /\ (20 * k - 10) * (20 * k - 10) <= 4 * d * d * M
        /\ 4 * d * d * M < (20 * k + 10) * (20 * k + 10)

\* C27: the pair of regions of an intra-layer rule gets
\* round(clamp(sqrt(min(sourcePointCount, targetPointCount)), 8, 100) * d)
\* segments.
C27_LinesPerPair ==
  connCall.pc = "returned" =>
    \A i \in DOMAIN connCall.out.calls :
      LET c == connCall.out.calls[i]
          src == connCall.tensorRegions[c.from]
          tgt == connCall.tensorRegions[c.to]
      IN  c.kind = "intra" =>
            c.lines = ClaimedLines(Min(src.endIdx - src.startIdx, tgt.endIdx - tgt.startIdx),
                                   connCall.density)

\* C28: an edge from a gate or up projection to a down projection joins
\* two regions of one layer, and of one expert when both have an expert.
C28_ExpertMatchedEdges ==
  connCall.pc = "returned" =>
    \A i \in DOMAIN connCall.out.calls :
      LET c == connCall.out.calls[i]
          src == connCall.tensorRegions[c.from]
          tgt == connCall.tensorRegions[c.to]
      IN  (src.category \in {"ffn_gate", "ffn_up"} /\ tgt.category = "ffn_down") =>
            /\ src.layerIdx = tgt.layerIdx
            /\ (src.expertIdx >= 0 /\ tgt.expertIdx >= 0) => src.expertIdx = tgt.expertIdx

\* the gate of expert 1 is joined to the down projection of expert 1 in a
\* layer that also has expert 0 and a down projection of no expert
C28_Witness ==
  /\ connCall.pc = "returned"
  /\ \E i \in DOMAIN connCall.out.calls :
       LET c == connCall.out.calls[i]
           src == connCall.tensorRegions[c.from]
           tgt == connCall.tensorRegions[c.to]
       IN  /\ src.category = "ffn_gate" /\ tgt.category = "ffn_down"
           /\ src.expertIdx = 1 /\ tgt.expertIdx = 1
           /\ c.lines > 0
           /\ \E j, k \in DOMAIN connCall.tensorRegions :
                /\ connCall.tensorRegions[j].layerIdx = src.layerIdx
                /\ connCall.tensorRegions[j].category = "ffn_down"
                /\ connCall.tensorRegions[j].expertIdx = 0
                /\ connCall.tensorRegions[k].layerIdx = src.layerIdx
                /\ connCall.tensorRegions[k].category = "ffn_down"
                /\ connCall.tensorRegions[k].expertIdx = -1


\* ------------------------------------------------------------------------
\* C29: whatever number of insufficient-data retries preceded it, a parse that
\* returns hands back the metadata, the tensor list and the data offset of a
\* single parse over the whole file; the tensor list has the declared number
\* of entries, in file order, and none of them is left from a failed attempt.
\* ------------------------------------------------------------------------
C29_RetryReplacesAttempt ==
  hp.pc = "returned" =>
    LET whole == _parseHeader(hp.file, hp.file.size)
    IN  /\ whole.err = "none"
        /\ hp.res.metadata = whole.metadata
        /\ hp.res.tensors = whole.tensors
        /\ hp.res.tensorDataOffset = whole.tensorDataOffset
        /\ hp.res.tensorCount = Len(hp.file.tensors)
        /\ Len(hp.res.tensors) = hp.res.tensorCount
        /\ \A i \in 1..Len(hp.res.tensors) :
             /\ hp.res.tensors[i].name = hp.file.tensors[i].name
             /\ hp.res.tensors[i].offset = hp.file.tensors[i].offset

\* a parse returned on a retry after an attempt that ran out of data with a
\* tensor entry already pushed
C29_Witness ==
  /\ hp.pc = "returned"
  /\ Len(hp.reads) >= 2
  /\ Len(hp.res.tensors) = 2
  /\ _parseHeader(hp.file, hp.reads[1]).partial # <<>>

====
